---------------------------- MODULE Spec2Model ----------------------------
(***************************************************************************)
(* Model of the jagrut bill-extraction pipeline: the QR payload decoder of *)
(* QRScannerScreen.tsx and the OCR entry point of the OCRService variants. *)
(*                                                                         *)
(* Strings are sequences of one-character strings.  JavaScript values are  *)
(* tagged records: [t |-> "undef"], [t |-> "nan"], [t |-> "num", ...],     *)
(* [t |-> "str", s |-> chars], [t |-> "date", ...], [t |-> "baddate"].    *)
(***************************************************************************)
EXTENDS Integers, Sequences, FiniteSets, TLC

VARIABLES
    qrPc,       \* position inside handleBarcodeScanned / parseQRCodeData
    qrData,     \* the trimmed payload being decoded
    qrLegacy,   \* whether the engine's Date reads text outside the ISO format
    qrBill,     \* `bill` of parseQRCodeData (Null until a strategy is accepted)
    qrRan,      \* the strategies run so far, in order
    qrOut,      \* the candidate each strategy that ran produced
    qrSplit,    \* whether parseCustomMetroPayload went past its `|` guard
    parsed,     \* the screen's `parsed` state (Null or [raw, bill])
    ocrPc,      \* position inside OCRService.extractTextFromImage
    ocrCopy,    \* the copy of the service that is running
    ocrImage,   \* the image: its URI, what the scanner and the recognizer make of it
    ocrLegacy,  \* whether the engine's Date reads text outside the ISO format
    ocrNow,     \* the clock at the call, as the digits of Date.now()
    ocrQr,      \* `qrData` of extractTextFromImage
    ocrData,    \* `ocrData` of extractTextFromImage (Null until the text is parsed)
    ocrResult,  \* how the call ended: nothing yet, a record returned, an error thrown
    txtPc,      \* where fallbackExtraction stands: idle, in the loop over the lines, mapped
    txtIn,      \* `text` of fallbackExtraction
    txtNorm,    \* `normalizedText`
    txtLines,   \* `lines` of buildFieldMap
    txtIdx,     \* the position of the loop in `lines`
    txtMap,     \* `map` of buildFieldMap
    txtPending, \* `pendingKey` of buildFieldMap
    authUser,   \* `user` of AuthProvider
    authStored, \* the item 'user_data' of AsyncStorage
    authDb,     \* the collection 'users' of Firestore: the document of each id
    authLogin,  \* the login in flight or last made: position, arguments, user, result
    authLogout, \* where logout stands
    authCheck,  \* where checkUser stands
    authLog,    \* the number of the last "Mock OTP sent" message
    authHist,   \* the last login that succeeded and the user restored at start
    ldModule,   \* whether `ocrModule` is set
    ldPromise,  \* `loadPromise`: 0 for null, or the number of the load it stands for
    ldLoads,    \* the loads started so far: pending, ok or failed
    ldCalls,    \* the calls of extractTextFromImage under way, each with its position
    camImage,   \* `image` of CameraScreen: 0 for null, or the number of the image
    camProcessing, \* `processing`
    camData,    \* `extractedData`, with the image it was read from
    camPicker,  \* the picker that is open, if any
    camTaken,   \* the number of images the pickers have returned
    camCompress, \* the images being compressed
    camTimers,  \* the images whose 500 ms timer is pending
    camRuns,    \* the images whose processImage awaits the extraction
    camSaves    \* the saves in flight, each with the image shown and the record saved

qrVars == <<qrPc, qrData, qrLegacy, qrBill, qrRan, qrOut, qrSplit, parsed>>

ocrVars == <<ocrPc, ocrCopy, ocrImage, ocrLegacy, ocrNow, ocrQr, ocrData, ocrResult>>

txtVars == <<txtPc, txtIn, txtNorm, txtLines, txtIdx, txtMap, txtPending>>

authVars == <<authUser, authStored, authDb, authLogin, authLogout, authCheck, authLog,
              authHist>>

ldVars == <<ldModule, ldPromise, ldLoads, ldCalls>>

camVars == <<camImage, camProcessing, camData, camPicker, camTaken, camCompress,
             camTimers, camRuns, camSaves>>

vars == <<qrPc, qrData, qrLegacy, qrBill, qrRan, qrOut, qrSplit, parsed,
          ocrPc, ocrCopy, ocrImage, ocrLegacy, ocrNow, ocrQr, ocrData, ocrResult,
          txtPc, txtIn, txtNorm, txtLines, txtIdx, txtMap, txtPending,
          authUser, authStored, authDb, authLogin, authLogout, authCheck, authLog,
          authHist,
          ldModule, ldPromise, ldLoads, ldCalls,
          camImage, camProcessing, camData, camPicker, camTaken, camCompress,
          camTimers, camRuns, camSaves>>

-----------------------------------------------------------------------------
(* Characters and strings *)

DigitSeq == <<"0", "1", "2", "3", "4", "5", "6", "7", "8", "9">>
LowerSeq == <<"a", "b", "c", "d", "e", "f", "g", "h", "i", "j", "k", "l", "m",
              "n", "o", "p", "q", "r", "s", "t", "u", "v", "w", "x", "y", "z">>
UpperSeq == <<"A", "B", "C", "D", "E", "F", "G", "H", "I", "J", "K", "L", "M",
              "N", "O", "P", "Q", "R", "S", "T", "U", "V", "W", "X", "Y", "Z">>

Range(f) == {f[i] : i \in DOMAIN f}

Digits == Range(DigitSeq)
Lower == Range(LowerSeq)
Upper == Range(UpperSeq)
Letters == Lower \cup Upper
AlphaNum == Letters \cup Digits
HexDigits == Digits \cup {"a", "b", "c", "d", "e", "f", "A", "B", "C", "D", "E", "F"}
\* the characters JavaScript's \s and trim() treat as white space (those the model uses)
WhiteSpace == {" ", "\t", "\n", "\r"}

PosIn(seq, c) == CHOOSE i \in DOMAIN seq : seq[i] = c

ToLowerChar(c) == IF c \in Upper THEN LowerSeq[PosIn(UpperSeq, c)] ELSE c
ToUpperChar(c) == IF c \in Lower THEN UpperSeq[PosIn(LowerSeq, c)] ELSE c
ToLowerCase(s) == [i \in DOMAIN s |-> ToLowerChar(s[i])]
ToUpperCase(s) == [i \in DOMAIN s |-> ToUpperChar(s[i])]

DigitVal(c) == PosIn(DigitSeq, c) - 1
HexVal(c) == IF c \in Digits THEN DigitVal(c)
             ELSE PosIn(LowerSeq, ToLowerChar(c)) + 9

Min(a, b) == IF a < b THEN a ELSE b
Max(a, b) == IF a > b THEN a ELSE b

\* s.slice(from - 1): the characters of s from position `from` (1-based) on
Drop(s, from) == SubSeq(s, from, Len(s))

\* String.prototype.includes for a single character
Includes(s, c) == \E i \in DOMAIN s : s[i] = c

\* whether `sub` occurs in s at position i (1-based)
MatchAt(s, sub, i) ==
    /\ i >= 1
    /\ i + Len(sub) - 1 <= Len(s)
    /\ \A k \in 1..Len(sub) : s[i + k - 1] = sub[k]

\* String.prototype.trim
Trim(s) ==
    LET keep == {i \in DOMAIN s : s[i] \notin WhiteSpace}
    IN  IF keep = {} THEN <<>>
        ELSE SubSeq(s, CHOOSE i \in keep : \A j \in keep : i <= j,
                       CHOOSE i \in keep : \A j \in keep : i >= j)

\* String.prototype.split for a one-character separator
RECURSIVE Split(_, _)
Split(s, c) ==
    IF ~Includes(s, c) THEN <<s>>
    ELSE LET i == CHOOSE k \in DOMAIN s : s[k] = c /\ \A j \in 1..(k - 1) : s[j] # c
         IN  <<SubSeq(s, 1, i - 1)>> \o Split(Drop(s, i + 1), c)

\* Array.prototype.filter(Boolean) on an array of strings: drops the empty ones
RECURSIVE FilterNonEmpty(_)
FilterNonEmpty(ss) ==
    IF ss = <<>> THEN <<>>
    ELSE IF Head(ss) = <<>> THEN FilterNonEmpty(Tail(ss))
         ELSE <<Head(ss)>> \o FilterNonEmpty(Tail(ss))

\* length of the longest run of characters of `class` starting at position i
RECURSIVE RunLen(_, _, _)
RunLen(s, i, class) ==
    IF i > Len(s) \/ s[i] \notin class THEN 0
    ELSE 1 + RunLen(s, i + 1, class)

\* length of the longest run of characters outside `excl` starting at position i
RECURSIVE RunLenNot(_, _, _)
RunLenNot(s, i, excl) ==
    IF i > Len(s) \/ s[i] \in excl THEN 0
    ELSE 1 + RunLenNot(s, i + 1, excl)

\* the position of the first character at or after i that is not white space
SkipWs(s, i) == i + RunLen(s, i, WhiteSpace)

\* the string joined from the parts with the separator between them
RECURSIVE Join(_, _)
Join(parts, sep) ==
    IF parts = <<>> THEN <<>>
    ELSE IF Len(parts) = 1 THEN parts[1]
         ELSE parts[1] \o sep \o Join(Tail(parts), sep)

\* the string padded at the end with `c` up to length n (String.prototype.padEnd)
RECURSIVE PadEnd(_, _, _)
PadEnd(s, n, c) == IF Len(s) >= n THEN s ELSE PadEnd(Append(s, c), n, c)

\* the values undefined, NaN and null, and a string value
Undefined == [t |-> "undef"]
NaN == [t |-> "nan"]
Null == [t |-> "null"]
Str(s) == [t |-> "str", s |-> s]


-----------------------------------------------------------------------------
(* Numbers.  A finite number is an exact fraction in lowest terms; a digit *)
(* string too long for that is kept as its canonical literal ("big").      *)
(* Decimal literals are taken exactly (no binary rounding).                *)

RECURSIVE GCD(_, _)
GCD(a, b) == IF b = 0 THEN a ELSE GCD(b, a % b)

Abs(n) == IF n < 0 THEN -n ELSE n

Num(n, d) ==
    LET g == GCD(Abs(n), d)
    IN  [t |-> "num", num |-> n \div g, den |-> d \div g]

BigNum(lit) == [t |-> "big", s |-> lit]

\* typeof v === 'number'
IsNumber(v) == v.t \in {"num", "big", "nan"}

RECURSIVE Pow(_, _)
Pow(b, e) == IF e = 0 THEN 1 ELSE b * Pow(b, e - 1)

\* the value of a string of decimal digits (empty: 0)
RECURSIVE IntOfDigits(_)
IntOfDigits(s) ==
    IF s = <<>> THEN 0
    ELSE 10 * IntOfDigits(SubSeq(s, 1, Len(s) - 1)) + DigitVal(s[Len(s)])

\* the value of a string of hexadecimal digits (parseInt(s, 16) on such a string)
RECURSIVE IntOfHex(_)
IntOfHex(s) ==
    IF s = <<>> THEN 0
    ELSE 16 * IntOfHex(SubSeq(s, 1, Len(s) - 1)) + HexVal(s[Len(s)])

RECURSIVE StripLeadingZeros(_)
StripLeadingZeros(s) ==
    IF Len(s) > 1 /\ s[1] = "0" THEN StripLeadingZeros(Tail(s)) ELSE s

RECURSIVE StripTrailingZeros(_)
StripTrailingZeros(s) ==
    IF s # <<>> /\ s[Len(s)] = "0" THEN StripTrailingZeros(SubSeq(s, 1, Len(s) - 1))
    ELSE s

\* 1 when the character at position i is a sign, else 0
SignAt(s, i) == IF i <= Len(s) /\ s[i] \in {"+", "-"} THEN 1 ELSE 0

\* the run of decimal digits starting at position p
DigitRun(s, p) == SubSeq(s, p, p + RunLen(s, p, Digits) - 1)

\* an integer read from its digits: [ok, v], ok = FALSE standing for NaN
IntegerOf(digs, neg) ==
    IF digs = <<>> THEN [ok |-> FALSE, v |-> 0]
    ELSE [ok |-> TRUE, v |-> IF neg THEN -IntOfDigits(digs) ELSE IntOfDigits(digs)]

\* parseInt(s, 10): leading white space, an optional sign, then the longest run
\* of digits; NaN when there is no digit
ParseIntFrom(s, i) == IntegerOf(DigitRun(s, i + SignAt(s, i)), i <= Len(s) /\ s[i] = "-")

ParseIntDec(s) == ParseIntFrom(s, SkipWs(s, 1))

\* the digits after a decimal point at position q, if there is one
FractionAt(s, q) == IF q <= Len(s) /\ s[q] = "." THEN DigitRun(s, q + 1) ELSE <<>>

\* the number with the integer digits ints and fraction digits fracs, both
\* without insignificant zeros; a literal of more than 9 digits is kept as its text
Decimal(ints, fracs, neg) ==
    IF Len(ints) + Len(fracs) > 9
    THEN BigNum((IF neg THEN <<"-">> ELSE <<>>) \o ints
                \o (IF fracs = <<>> THEN <<>> ELSE <<".">> \o fracs))
    ELSE Num(IF neg THEN -IntOfDigits(ints \o fracs) ELSE IntOfDigits(ints \o fracs),
             Pow(10, Len(fracs)))

DecimalOf(ints, fracs, neg) ==
    IF ints = <<>> /\ fracs = <<>> THEN NaN
    ELSE Decimal(StripLeadingZeros(ints), StripTrailingZeros(fracs), neg)

ParseFloatDigits(s, p, ints, neg) == DecimalOf(ints, FractionAt(s, p + Len(ints)), neg)

ParseFloatFrom(s, i) ==
    ParseFloatDigits(s, i + SignAt(s, i), DigitRun(s, i + SignAt(s, i)),
                     i <= Len(s) /\ s[i] = "-")

\* parseFloat(s): leading white space, an optional sign, digits, an optional
\* point and digits; NaN when no digit is found.  (Exponent notation and
\* "Infinity" are not modelled: no string the model parses carries them.)
ParseFloat(s) == ParseFloatFrom(s, SkipWs(s, 1))

-----------------------------------------------------------------------------
(* Dates.  A valid Date is [t |-> "date", day, ms]: days since 1970-01-01  *)
(* and milliseconds within the day; local time is taken to be UTC.         *)

InvalidDate == [t |-> "baddate"]

DaysOfEra(era, yoe, doy) ==
    era * 146097 + yoe * 365 + yoe \div 4 - yoe \div 100 + doy - 719468

DaysOfYear(yy, doy) == DaysOfEra(yy \div 400, yy % 400, doy)

\* days since 1970-01-01 of the civil date y-m-d (m in 1..12, d any integer)
DaysFromCivil(y, m, d) ==
    DaysOfYear(IF m <= 2 THEN y - 1 ELSE y,
               (153 * (IF m > 2 THEN m - 3 ELSE m + 9) + 2) \div 5 + d - 1)

CivilOfMonth(y, mp, doy) ==
    [y |-> y + (IF mp >= 10 THEN 1 ELSE 0),
     m |-> IF mp < 10 THEN mp + 3 ELSE mp - 9,
     d |-> doy - (153 * mp + 2) \div 5 + 1]

CivilOfDay(y, doy) == CivilOfMonth(y, (5 * doy + 2) \div 153, doy)

CivilOfYear(era, yoe, doe) ==
    CivilOfDay(yoe + era * 400, doe - (365 * yoe + yoe \div 4 - yoe \div 100))

CivilOfEra(era, doe) ==
    CivilOfYear(era, (doe - doe \div 1460 + doe \div 36524 - doe \div 146096) \div 365, doe)

\* the civil date [y, m, d] of a day number
CivilFromDays(z) == CivilOfEra((z + 719468) \div 146097, (z + 719468) % 146097)

\* the Date of a day number and a time in milliseconds; a Date holds at most
\* 8.64e15 ms, 100000000 days, either side of the epoch
DateOfDay(dn, time) ==
    IF Abs(dn + time \div 86400000) > 100000000 THEN InvalidDate
    ELSE [t |-> "date", day |-> dn + time \div 86400000, ms |-> time % 86400000]

\* new Date(year, monthIndex, day, hours, minutes, seconds, ms): out-of-range
\* components roll over; a year in 0..99 means 1900 + year
MakeDate(year, monthIndex, day, h, mi, s, ms) ==
    DateOfDay(DaysFromCivil((IF year >= 0 /\ year <= 99 THEN 1900 + year ELSE year)
                               + monthIndex \div 12,
                            (monthIndex % 12) + 1, 1) + day - 1,
              h * 3600000 + mi * 60000 + s * 1000 + ms)

\* Number.isNaN(date.getTime())
IsInvalidDate(d) == d.t = "baddate"

\* Date.prototype.getFullYear of a valid date
GetFullYear(d) == CivilFromDays(d.day).y

\* a valid date written out, for stating expected values
DateParts(d) ==
    LET c == CivilFromDays(d.day)
    IN  [y |-> c.y, m |-> c.m, d |-> c.d,
         h |-> d.ms \div 3600000, mi |-> (d.ms \div 60000) % 60,
         s |-> (d.ms \div 1000) % 60]

\* JavaScript truthiness of a model value
Truthy(v) ==
    CASE v.t = "undef" -> FALSE
      [] v.t = "null"  -> FALSE
      [] v.t = "nan"   -> FALSE
      [] v.t = "num"   -> v.num # 0
      [] v.t = "str"   -> v.s # <<>>
      [] OTHER         -> TRUE

-----------------------------------------------------------------------------
(* Regular expressions.  A pattern is a tree of nodes; Ends gives the      *)
(* positions a node can end at when started at position i, in the order    *)
(* JavaScript's backtracking matcher tries them (greedy first).            *)

Lit(s) == [k |-> "lit", s |-> s]                       \* the literal text s
LitCI(s) == [k |-> "litci", s |-> s]                   \* the same under the i flag
Cls(set, min, max) == [k |-> "cls", set |-> set, min |-> min, max |-> max]
NotCls(set, min, max) == [k |-> "ncls", set |-> set, min |-> min, max |-> max]
Opt(r) == [k |-> "opt", r |-> r]                       \* r?
Alt(rs) == [k |-> "alt", rs |-> rs]                    \* r1|r2|...
Cat(rs) == [k |-> "cat", rs |-> rs]                    \* r1 r2 ...
Eos == [k |-> "eos"]                                   \* $
Bos == [k |-> "bos"]                                   \* ^
WordB == [k |-> "wordb"]                               \* \b
\* an upper limit for "no upper limit" on a repetition
Unbounded == 0 - 1

WordChars == AlphaNum \cup {"_"}

\* greedy repetition: the ends from the longest run down to the shortest allowed
RunEnds(i, n, min) == [j \in 1..(n - min + 1) |-> i + n - j + 1]

RECURSIVE Ends(_, _, _)
RECURSIVE AltEnds(_, _, _, _)
RECURSIVE CatEnds(_, _, _, _)
RECURSIVE CatEndsFrom(_, _, _, _, _)

Ends(re, s, i) ==
    CASE re.k = "lit"   -> IF MatchAt(s, re.s, i) THEN <<i + Len(re.s)>> ELSE <<>>
      [] re.k = "litci" -> IF MatchAt(ToLowerCase(s), ToLowerCase(re.s), i)
                           THEN <<i + Len(re.s)>> ELSE <<>>
      [] re.k = "cls"   -> LET run == RunLen(s, i, re.set)
                               n   == IF re.max = Unbounded THEN run ELSE Min(run, re.max)
                           IN  IF n < re.min THEN <<>> ELSE RunEnds(i, n, re.min)
      [] re.k = "ncls"  -> LET run == RunLenNot(s, i, re.set)
                               n   == IF re.max = Unbounded THEN run ELSE Min(run, re.max)
                           IN  IF n < re.min THEN <<>> ELSE RunEnds(i, n, re.min)
      [] re.k = "opt"   -> Ends(re.r, s, i) \o <<i>>
      [] re.k = "alt"   -> AltEnds(re.rs, 1, s, i)
      [] re.k = "cat"   -> CatEnds(re.rs, 1, s, i)
      [] re.k = "eos"   -> IF i = Len(s) + 1 THEN <<i>> ELSE <<>>
      [] re.k = "bos"   -> IF i = 1 THEN <<i>> ELSE <<>>
      [] re.k = "wordb" -> LET before == i > 1 /\ s[i - 1] \in WordChars
                               after  == i <= Len(s) /\ s[i] \in WordChars
                           IN  IF before # after THEN <<i>> ELSE <<>>

AltEnds(rs, k, s, i) ==
    IF k > Len(rs) THEN <<>>
    ELSE Ends(rs[k], s, i) \o AltEnds(rs, k + 1, s, i)

CatEnds(rs, k, s, i) ==
    IF k > Len(rs) THEN <<i>>
    ELSE CatEndsFrom(Ends(rs[k], s, i), 1, rs, k, s)

CatEndsFrom(es, j, rs, k, s) ==
    IF j > Len(es) THEN <<>>
    ELSE CatEnds(rs, k + 1, s, es[j]) \o CatEndsFrom(es, j + 1, rs, k, s)

\* The first way, in the matcher's order, to match the parts one after another
\* from position i: [ok, b], b[k] the start of part k and b[k + 1] its end.
NoPath == [ok |-> FALSE, b |-> <<>>]

RECURSIVE PathFrom(_, _, _, _)
RECURSIVE TryEnds(_, _, _, _, _, _)

PathFrom(parts, k, s, i) ==
    IF k > Len(parts) THEN [ok |-> TRUE, b |-> <<i>>]
    ELSE TryEnds(Ends(parts[k], s, i), 1, parts, k, s, i)

TryEnds(es, j, parts, k, s, i) ==
    IF j > Len(es) THEN NoPath
    ELSE LET r == PathFrom(parts, k + 1, s, es[j])
         IN  IF r.ok THEN [ok |-> TRUE, b |-> <<i>> \o r.b]
             ELSE TryEnds(es, j + 1, parts, k, s, i)

\* whether the parts match from some position of from..to, and the first such
MatchesIn(parts, s, from, to) == \E i \in from..to : PathFrom(parts, 1, s, i).ok

FirstMatchIn(parts, s, from, to) ==
    PathFrom(parts, 1, s,
             CHOOSE i \in from..to :
                 /\ PathFrom(parts, 1, s, i).ok
                 /\ \A j \in from..(i - 1) : ~PathFrom(parts, 1, s, j).ok)

\* s.match(pattern) from position `from` on: the leftmost match, looked for
\* sixteen start positions at a time
RECURSIVE Search(_, _, _)
Search(parts, s, from) ==
    IF from > Len(s) + 1 THEN NoPath
    ELSE IF MatchesIn(parts, s, from, Min(from + 15, Len(s) + 1))
         THEN FirstMatchIn(parts, s, from, Min(from + 15, Len(s) + 1))
    ELSE Search(parts, s, from + 16)

\* the text part k of a match covers
Group(s, m, k) == SubSeq(s, m.b[k], m.b[k + 1] - 1)

\* regex.test(s)
Test(parts, s) == Search(parts, s, 1).ok

-----------------------------------------------------------------------------
(* The segmented ("custom metro") payload grammar: QRScannerScreen.tsx *)

\* Array.from(text.matchAll(/\{([^{}]*)\}/g), m => m[1]): the contents of the
\* brace blocks, scanning from position i
RECURSIVE BraceMatches(_, _)
BraceMatches(s, i) ==
    IF i > Len(s) THEN <<>>
    ELSE IF s[i] = "{"
         THEN LET n == RunLenNot(s, i + 1, {"{", "}"})
              IN  IF i + n + 1 <= Len(s) /\ s[i + n + 1] = "}"
                  THEN <<SubSeq(s, i + 1, i + n)>> \o BraceMatches(s, i + n + 2)
                  ELSE BraceMatches(s, i + 1)
         ELSE BraceMatches(s, i + 1)

\* Array.from(block.matchAll(/<([^>]+)>/g), m => m[1]), scanning from position i
RECURSIVE AngleMatches(_, _)
AngleMatches(s, i) ==
    IF i > Len(s) THEN <<>>
    ELSE IF s[i] = "<"
         THEN LET n == RunLenNot(s, i + 1, {">"})
              IN  IF n >= 1 /\ i + n + 1 <= Len(s)
                  THEN <<SubSeq(s, i + 1, i + n)>> \o AngleMatches(s, i + n + 2)
                  ELSE AngleMatches(s, i + 1)
         ELSE AngleMatches(s, i + 1)

TrimAll(ss) == [i \in DOMAIN ss |-> Trim(ss[i])]

\* segments[k] with JavaScript's 0-based index: undefined past the end
SegAt(segs, k) == IF k + 1 <= Len(segs) THEN Str(segs[k + 1]) ELSE Undefined

\* segments.find(P): the first segment satisfying P, else undefined
FindFirst(segs, P(_)) ==
    IF \E i \in DOMAIN segs : P(segs[i])
    THEN Str(segs[CHOOSE i \in DOMAIN segs :
                     P(segs[i]) /\ \A j \in 1..(i - 1) : ~P(segs[j])])
    ELSE Undefined

\* first element of a sequence satisfying P, else the default
FirstOr(ss, P(_), default) ==
    IF \E i \in DOMAIN ss : P(ss[i])
    THEN ss[CHOOSE i \in DOMAIN ss : P(ss[i]) /\ \A j \in 1..(i - 1) : ~P(ss[j])]
    ELSE default

LineTerminators == {"\n", "\r"}

\* /[A-Z].*\d/.test(seg)
IsTicketLike(seg) ==
    \E i \in DOMAIN seg : \E j \in DOMAIN seg :
        /\ i < j
        /\ seg[i] \in Upper
        /\ seg[j] \in Digits
        /\ \A k \in (i + 1)..(j - 1) : seg[k] \notin LineTerminators

\* /^0x([0-9a-f]+)(?:\.([0-9a-f]+))?p([+-]?\d+)$/i, the parts in order: "0x", the
\* integer digits, the optional fraction with its point, "p", the exponent, the end
HexFloatPattern ==
    <<Bos, LitCI(<<"0", "x">>), Cls(HexDigits, 1, Unbounded),
      Opt(Cat(<<Lit(<<".">>), Cls(HexDigits, 1, Unbounded)>>)),
      LitCI(<<"p">>),
      Cat(<<Cls({"+", "-"}, 0, 1), Cls(Digits, 1, Unbounded)>>), Eos>>

\* /^0x[0-9a-f]+(?:\.[0-9a-f]+)?p[+-]?\d+$/i.test(seg)
IsHexFloat(seg) == PathFrom(HexFloatPattern, 1, seg, 1).ok

\* /^\d+(?:\.\d+)?$/
NumericPattern ==
    <<Bos, Cls(Digits, 1, Unbounded),
      Opt(Cat(<<Lit(<<".">>), Cls(Digits, 1, Unbounded)>>)), Eos>>

\* /^\d+(?:\.\d+)?$/.test(seg)
IsNumeric(seg) == PathFrom(NumericPattern, 1, seg, 1).ok

\* /^\d{10,}$/.test(seg)
IsTimestamp(seg) == Len(seg) >= 10 /\ \A i \in DOMAIN seg : seg[i] \in Digits

\* /T\d{3,}/.test(seg)
HasDateToken(seg) == \E i \in DOMAIN seg : seg[i] = "T" /\ RunLen(seg, i + 1, Digits) >= 3

\* /\d{6,}/.test(seg)
HasSixDigits(seg) == \E i \in DOMAIN seg : RunLen(seg, i, Digits) >= 6

\* /metro/i.test(s)
HasMetro(s) == \E i \in DOMAIN s : MatchAt(ToLowerCase(s), <<"m", "e", "t", "r", "o">>, i)

\* the characters of s that are in `class`, in order (replace(/[^class]/g, ''))
RECURSIVE KeepOnly(_, _)
KeepOnly(s, class) ==
    IF s = <<>> THEN <<>>
    ELSE IF Head(s) \in class THEN <<Head(s)>> \o KeepOnly(Tail(s), class)
         ELSE KeepOnly(Tail(s), class)

\* lines 531-536: the constructed Date unless invalid or rolled into another year
YearChecked(constructed, year) ==
    IF IsInvalidDate(constructed) \/ GetFullYear(constructed) # year THEN Undefined
    ELSE constructed

\* lines 520-531: hours, minutes, seconds of the padded time, the milliseconds
MetroDate(year, month, day, paddedTime, millisecondPart) ==
    YearChecked(MakeDate(year, Max(0, month - 1), day,
                         IntOfDigits(SubSeq(paddedTime, 1, 2)),
                         IntOfDigits(SubSeq(paddedTime, 3, 4)),
                         IntOfDigits(SubSeq(paddedTime, 5, 6)),
                         IntOfDigits(PadEnd(millisecondPart, 3, "0"))),
                year)

\* lines 498-519: the year is 2000 plus the second pair of digits of the date section
MetroDateOfSections(dateSection, timeSection) ==
    IF dateSection = <<>> \/ timeSection = <<>> THEN Undefined
    ELSE IF Len(dateSection) # 8 THEN Undefined
    ELSE MetroDate(2000 + IntOfDigits(SubSeq(dateSection, 3, 4)),
                   IntOfDigits(SubSeq(dateSection, 5, 6)),
                   IntOfDigits(SubSeq(dateSection, 7, 8)),
                   PadEnd(timeSection, 6, "0"),
                   IF Len(timeSection) > 6
                   THEN SubSeq(timeSection, 7, Min(9, Len(timeSection)))
                   ELSE <<"0">>)

\* const [dateSection, timeSection] = normalized.split('T')
MetroDateOfParts(parts) ==
    MetroDateOfSections(parts[1], IF Len(parts) >= 2 THEN parts[2] ELSE <<>>)

parseMetroDateTime(token) == MetroDateOfParts(Split(KeepOnly(token, Digits \cup {"T"}), "T"))

\* (integer + fraction) * 2 ** exponent, with integer + fraction = mant / den
ScaleByExponent(mant, den, exponent) ==
    IF ~exponent.ok THEN NaN
    ELSE IF exponent.v >= 0 THEN Num(mant * Pow(2, exponent.v), den)
    ELSE Num(mant, den * Pow(2, 0 - exponent.v))

\* the body of parseHexFloat after the match: integerPart and fractionPart are
\* strings, exponentPart a string value or undefined.  The fraction is the sum
\* of digit / 16 ** (index + 1); a fraction character that is no hexadecimal
\* digit ends the function with undefined.
HexFloatValue(integerPart, fractionPart, exponentPart) ==
    IF \E i \in DOMAIN fractionPart : fractionPart[i] \notin HexDigits THEN Undefined
    ELSE ScaleByExponent(IntOfHex(integerPart) * Pow(16, Len(fractionPart))
                            + IntOfHex(fractionPart),
                         Pow(16, Len(fractionPart)),
                         IF exponentPart.t = "str" THEN ParseIntDec(exponentPart.s)
                         ELSE [ok |-> FALSE, v |-> 0])

\* the pattern of src/screens/QRScannerScreen.tsx does not capture the fraction,
\* so its match has two groups and the destructuring
\* [, integerPart, fractionPart = '0', exponentPart] binds the exponent text to
\* fractionPart and leaves exponentPart undefined
HexFloatOfMatch(value, m) ==
    IF ~m.ok THEN Undefined
    ELSE HexFloatValue(Group(value, m, 3), Group(value, m, 6), Undefined)

\* parseHexFloat of src/screens/QRScannerScreen.tsx
parseHexFloat(value) == HexFloatOfMatch(value, PathFrom(HexFloatPattern, 1, value, 1))

\* the pattern of the other copy of the scanner screen (unnamed/part_004)
\* captures the fraction, so the three groups bind as the destructuring names them
HexFloatOfMatchCapturing(value, m) ==
    IF ~m.ok THEN Undefined
    ELSE HexFloatValue(Group(value, m, 3),
                       IF Group(value, m, 4) = <<>> THEN <<"0">>
                       ELSE Tail(Group(value, m, 4)),
                       Str(Group(value, m, 6)))

\* parseHexFloat of unnamed/part_004
parseHexFloatCapturing(value) ==
    HexFloatOfMatchCapturing(value, PathFrom(HexFloatPattern, 1, value, 1))

formatRouteSegment(segment) ==
    LET lead    == RunLenNot(segment, 1, AlphaNum)
        cleaned == Trim(Split(Drop(segment, lead + 1), "|")[1])
    IN  IF segment = <<>> THEN Undefined
        ELSE IF cleaned = <<>> THEN Undefined
        ELSE Str(cleaned)

\* the station table of decodeMetroStationCode; it is empty in the source
knownStations == [k \in {} |-> <<>>]

decodeMetroStationCode(code) ==
    IF ~Truthy(code) THEN Undefined
    ELSE LET normalized == Trim(code.s)
         IN  IF normalized = <<>> THEN Undefined
             ELSE IF ToLowerCase(normalized) \in DOMAIN knownStations
                  THEN Str(knownStations[ToLowerCase(normalized)])
                  ELSE Str(ToUpperCase(normalized))

\* quotient and remainder of a digit string by m, the quotient saturating far
\* beyond the largest day number a Date can hold
RECURSIVE DivDigits(_, _)
DivDigits(s, m) ==
    IF s = <<>> THEN [q |-> 0, r |-> 0]
    ELSE LET p   == DivDigits(SubSeq(s, 1, Len(s) - 1), m)
             cur == p.r * 10 + DigitVal(s[Len(s)])
         IN  [q |-> Min(p.q * 10 + cur \div m, 200000000), r |-> cur % m]

\* lines 382-384: parseInt(candidate, 10), seconds unless above 1e12, new Date(millis)
EpochDate(digits) ==
    LET cd       == StripLeadingZeros(digits)
        isMillis == \/ Len(cd) > 13
                    \/ Len(cd) = 13 /\ cd # <<"1">> \o [i \in 1..12 |-> "0"]
        dm       == IF isMillis THEN DivDigits(cd, 86400000) ELSE DivDigits(cd, 86400)
    IN  IF dm.q > 100000000 THEN InvalidDate
        ELSE [t |-> "date", day |-> dm.q, ms |-> IF isMillis THEN dm.r ELSE dm.r * 1000]

\* the Date of a count of milliseconds given as digits
MillisDateOf(dm) ==
    IF dm.q > 100000000 THEN InvalidDate ELSE [t |-> "date", day |-> dm.q, ms |-> dm.r]

MillisDate(digits) == MillisDateOf(DivDigits(StripLeadingZeros(digits), 86400000))

\* lines 441-444
ValidOrUndefined(constructed) == IF IsInvalidDate(constructed) THEN Undefined ELSE constructed

\* lines 436-441 with every year put in the 2000s
RouteDateOf_ThisCentury(day, month, yearTwoDigit) ==
    IF ~(day.ok /\ month.ok /\ yearTwoDigit.ok) THEN Undefined
    ELSE ValidOrUndefined(MakeDate(yearTwoDigit.v + 2000, Max(0, month.v - 1), day.v,
                                   0, 0, 0, 0))

\* lines 436-441: day, month and yearTwoDigit as parseInt gave them
RouteDateOf(day, month, yearTwoDigit) ==
    IF ~(day.ok /\ month.ok /\ yearTwoDigit.ok) THEN Undefined
    ELSE ValidOrUndefined(MakeDate(yearTwoDigit.v + (IF yearTwoDigit.v >= 70 THEN 1900 ELSE 2000),
                                   Max(0, month.v - 1), day.v, 0, 0, 0, 0))

RouteDateOfParts(dateParts) ==
    IF Len(dateParts) < 3 THEN Undefined
    ELSE RouteDateOf(ParseIntDec(dateParts[1]), ParseIntDec(dateParts[2]),
                     ParseIntDec(dateParts[3]))

\* lines 433-446: the date built from the route block's third token, undefined
\* when none is built
RouteBlockDate(token) == RouteDateOfParts(Split(token, "|"))

\* a ?? b
Coalesce(a, b) == IF a.t \in {"undef", "null"} THEN b ELSE a

IsDataBlock(block) == Includes(block, "|") /\ Len(Split(block, "|")) >= 4
IsRouteBlock(block) == Includes(block, "<") /\ Includes(block, ">")
IsTicketCandidate(segment) == IsTicketLike(segment) /\ Len(segment) >= 10

\* line 334
BraceSections(text) == FilterNonEmpty(TrimAll(BraceMatches(text, 1)))

\* line 345
DataSegments(text) ==
    LET dataBlock == FindFirst(BraceSections(text), IsDataBlock)
    IN  IF Truthy(dataBlock) THEN FilterNonEmpty(TrimAll(Split(dataBlock.s, "|")))
        ELSE <<>>

\* `value` when it is truthy, else what the variable held
OrKeep(value, old) == IF Truthy(value) THEN value ELSE old

\* lines 351-358
SequentialOutcome(b, sequentialCandidate, metroDate) ==
    IF Truthy(metroDate) THEN [b EXCEPT !.date = metroDate]
    ELSE [b EXCEPT !.billNumber = sequentialCandidate]

\* lines 350-358 reading segments[3]
SequentialStep_IndexThree(b, segments) ==
    IF Truthy(SegAt(segments, 3))
    THEN SequentialOutcome(b, SegAt(segments, 3), parseMetroDateTime(SegAt(segments, 3).s))
    ELSE b

\* lines 350-358: segments[4]
SequentialStep(b, segments) ==
    IF Truthy(SegAt(segments, 4))
    THEN SequentialOutcome(b, SegAt(segments, 4), parseMetroDateTime(SegAt(segments, 4).s))
    ELSE b

\* lines 360-365
TicketCandidateStep(b, segments) ==
    IF ~Truthy(b.billNumber)
    THEN [b EXCEPT !.billNumber = OrKeep(FindFirst(segments, IsTicketCandidate), @)]
    ELSE b

\* lines 367-370
HexFloatAmount(b, hexFloat) ==
    IF Truthy(hexFloat) THEN [b EXCEPT !.amount = parseHexFloat(hexFloat.s)] ELSE b

HexFloatStep(b, segments) == HexFloatAmount(b, FindFirst(segments, IsHexFloat))

\* lines 372-377
NumericAmount(b, numericAmount) ==
    IF Truthy(numericAmount) THEN [b EXCEPT !.amount = ParseFloat(numericAmount.s)] ELSE b

NumericAmountStep(b, segments) ==
    IF b.amount = Undefined THEN NumericAmount(b, FindFirst(segments, IsNumeric)) ELSE b

\* lines 385-391
EpochOutcome(b, candidate) ==
    IF /\ ~IsInvalidDate(candidate)
       /\ GetFullYear(candidate) >= 2000
       /\ GetFullYear(candidate) <= 2100
    THEN [b EXCEPT !.date = candidate]
    ELSE b

\* lines 380-384
EpochCandidate(b, timestampCandidate) ==
    IF Truthy(timestampCandidate) THEN EpochOutcome(b, EpochDate(timestampCandidate.s))
    ELSE b

\* lines 379-393
TimestampStep(b, segments) ==
    IF ~Truthy(b.date) THEN EpochCandidate(b, FindFirst(segments, IsTimestamp)) ELSE b

\* lines 397-399
DateTokenOutcome(b, dateToken) ==
    IF Truthy(dateToken)
    THEN [b EXCEPT !.date = Coalesce(parseMetroDateTime(dateToken.s), @)]
    ELSE b

\* lines 395-400
DateTokenStep(b, segments) ==
    IF ~Truthy(b.date) THEN DateTokenOutcome(b, FindFirst(segments, HasDateToken)) ELSE b

\* lines 402-407
FallbackTicketStep(b, segments) ==
    IF ~Truthy(b.billNumber)
    THEN [b EXCEPT !.billNumber = OrKeep(FindFirst(segments, HasSixDigits), @)]
    ELSE b

\* lines 409-421: segments[7] and segments[8] when there is no route block
StationDecodeStep(b, segments, routeBlock) ==
    IF Truthy(routeBlock) THEN b
    ELSE [b EXCEPT !.from = OrKeep(decodeMetroStationCode(SegAt(segments, 7)), @),
                   !.to   = OrKeep(decodeMetroStationCode(SegAt(segments, 8)), @)]

NoFields == [billNumber |-> Undefined, amount |-> Undefined, date |-> Undefined,
             from |-> Undefined, to |-> Undefined]

\* lines 347-422: what the data block yields, statement by statement
DataBlockFields(segments, routeBlock) ==
    StationDecodeStep(
        FallbackTicketStep(
            DateTokenStep(
                TimestampStep(
                    NumericAmountStep(
                        HexFloatStep(
                            TicketCandidateStep(
                                SequentialStep(NoFields, segments),
                                segments),
                            segments),
                        segments),
                    segments),
                segments),
            segments),
        segments, routeBlock)



\* lines 425-447: the tokens of the route block applied on top of the fields so far
RouteTokens(b, segments) ==
    [b EXCEPT
       !.from = IF Len(segments) >= 1 THEN formatRouteSegment(segments[1]) ELSE @,
       !.to   = IF Len(segments) >= 2 THEN formatRouteSegment(segments[2]) ELSE @,
       !.date = IF ~Truthy(@) /\ Len(segments) >= 3
                THEN OrKeep(RouteBlockDate(segments[3]), @) ELSE @]

\* line 425
RouteBlockFields(b, routeBlock) == RouteTokens(b, AngleMatches(routeBlock.s, 1))

\* `${name} (${decoded})` when the code decodes, else the name as it is
WithCode(name, decoded) ==
    IF Truthy(decoded) THEN Str(name.s \o <<" ", "(">> \o decoded.s \o <<")">>)
    ELSE name

\* lines 454-461
FromWithCode(from, fromCode) ==
    IF ~Truthy(from) \/ HasMetro(from.s)
    THEN Coalesce(decodeMetroStationCode(fromCode), from)
    ELSE IF Truthy(fromCode) THEN WithCode(from, decodeMetroStationCode(fromCode))
    ELSE from

\* lines 463-471, `from` being the value lines 454-461 left
ToWithCode(to, from, fromCode, toCode) ==
    IF ~Truthy(to) \/ (Truthy(from) /\ to = from) \/ HasMetro(to.s)
    THEN Coalesce(decodeMetroStationCode(toCode),
                  IF fromCode = toCode THEN Undefined ELSE to)
    ELSE IF Truthy(toCode) THEN WithCode(to, decodeMetroStationCode(toCode))
    ELSE to

StationCodes(b, from, fromCode, toCode) ==
    [b EXCEPT !.from = from, !.to = ToWithCode(b.to, from, fromCode, toCode)]

\* lines 450-472: station codes of segments 7 and 8 against the route text
StationCodeFields(b, dataSegments) ==
    StationCodes(b, FromWithCode(b.from, SegAt(dataSegments, 7)),
                 SegAt(dataSegments, 7), SegAt(dataSegments, 8))

\* the first check left out
PassesPipeGuard_Always(text) == TRUE

\* whether parseCustomMetroPayload gets past its first check (line 330)
PassesPipeGuard(text) == Includes(text, "|")

\* lines 347, 424, 450: the three blocks of statements and their conditions
DataStage(dataSegments, routeBlock) ==
    IF dataSegments # <<>> THEN DataBlockFields(dataSegments, routeBlock) ELSE NoFields

RouteStage(b, routeBlock) == IF Truthy(routeBlock) THEN RouteBlockFields(b, routeBlock) ELSE b

StationStage(b, dataSegments) ==
    IF dataSegments # <<>> THEN StationCodeFields(b, dataSegments) ELSE b

CustomFields(dataSegments, routeBlock) ==
    StationStage(RouteStage(DataStage(dataSegments, routeBlock), routeBlock), dataSegments)

parseCustomMetroPayload(text) ==
    IF ~PassesPipeGuard(text) THEN Null
    ELSE CustomFields(DataSegments(text), FindFirst(BraceSections(text), IsRouteBlock))

-----------------------------------------------------------------------------
(* Objects, JSON and the key/value strategies of parseQRCodeData *)

\* an object as a function from property names to values; a missing property
\* reads as undefined
Prop(obj, key) == IF key \in DOMAIN obj THEN obj[key] ELSE Undefined

EmptyObject == [k \in {} |-> Undefined]

\* obj with obj[key] = value assigned
SetProp(obj, key, value) ==
    [k \in DOMAIN obj \cup {key} |-> IF k = key THEN value ELSE obj[k]]

\* the decimal digits of a natural number
RECURSIVE DigitsOf(_)
DigitsOf(n) ==
    IF n < 10 THEN <<DigitSeq[n + 1]>>
    ELSE DigitsOf(n \div 10) \o <<DigitSeq[(n % 10) + 1]>>

\* the least k with den dividing 10 ** k (den a product of twos and fives)
RECURSIVE DecimalPlaces(_, _)
DecimalPlaces(den, k) ==
    IF Pow(10, k) % den = 0 THEN k ELSE DecimalPlaces(den, k + 1)

\* the digits of scaled / 10 ** k written with k decimal places
FixedDigits(ip, fp, k) ==
    IF k = 0 THEN ip ELSE ip \o <<".">> \o [i \in 1..(k - Len(fp)) |-> "0"] \o fp

NumToStringPlaces(v, k) ==
    (IF v.num < 0 THEN <<"-">> ELSE <<>>)
    \o FixedDigits(DigitsOf(((Abs(v.num) * Pow(10, k)) \div v.den) \div Pow(10, k)),
                   DigitsOf(((Abs(v.num) * Pow(10, k)) \div v.den) % Pow(10, k)), k)

\* Number.prototype.toString of a finite number with a finite decimal expansion
NumToString(v) == IF v.t = "big" THEN v.s ELSE NumToStringPlaces(v, DecimalPlaces(v.den, 0))

JsonFail == [ok |-> FALSE, v |-> Undefined, next |-> 0]

\* a JSON number: -?(0|[1-9]\d*)(\.\d+)?  (exponents are not modelled)
JsonNumberPattern ==
    Cat(<<Opt(Lit(<<"-">>)),
          Alt(<<Lit(<<"0">>), Cat(<<Cls(Digits \ {"0"}, 1, 1), Cls(Digits, 0, Unbounded)>>)>>),
          Opt(Cat(<<Lit(<<".">>), Cls(Digits, 1, Unbounded)>>))>>)

\* a JSON string without escapes starting at the quote at position i and
\* running over n characters
JsonString(s, i, n) ==
    IF i + n + 1 <= Len(s) /\ s[i + n + 1] = "\""
    THEN [ok |-> TRUE, v |-> Str(SubSeq(s, i + 1, i + n)), next |-> i + n + 2]
    ELSE JsonFail

\* a JSON number at position i, es the ends its pattern can have
JsonNumber(s, i, es) ==
    IF es = <<>> THEN JsonFail
    ELSE [ok |-> TRUE, v |-> ParseFloat(SubSeq(s, i, es[1] - 1)), next |-> es[1]]

\* a JSON string, number or literal at position i
JsonScalar(s, i) ==
    IF i > Len(s) THEN JsonFail
    ELSE IF s[i] = "\""
         THEN JsonString(s, i, RunLenNot(s, i + 1, {"\"", "\\", "\n", "\r", "\t"}))
    ELSE IF MatchAt(s, <<"t", "r", "u", "e">>, i)
         THEN [ok |-> TRUE, v |-> [t |-> "bool", b |-> TRUE], next |-> i + 4]
    ELSE IF MatchAt(s, <<"f", "a", "l", "s", "e">>, i)
         THEN [ok |-> TRUE, v |-> [t |-> "bool", b |-> FALSE], next |-> i + 5]
    ELSE IF MatchAt(s, <<"n", "u", "l", "l">>, i)
         THEN [ok |-> TRUE, v |-> Null, next |-> i + 4]
    ELSE JsonNumber(s, i, Ends(JsonNumberPattern, s, i))

\* the members of a JSON object from position i (just after "{" or ","), added
\* to acc: a key, a colon, a value, then "}" or "," and the next member
RECURSIVE JsonMembers(_, _, _)

JsonAfterMember(s, after, acc) ==
    IF after > Len(s) THEN JsonFail
    ELSE IF s[after] = "}" THEN [ok |-> TRUE, v |-> acc, next |-> after + 1]
    ELSE IF s[after] = "," THEN JsonMembers(s, after + 1, acc)
    ELSE JsonFail

JsonAfterValue(s, name, val, acc) ==
    IF ~val.ok THEN JsonFail
    ELSE JsonAfterMember(s, SkipWs(s, val.next), SetProp(acc, name, val.v))

JsonAfterColon(s, name, colon, acc) ==
    IF colon > Len(s) \/ s[colon] # ":" THEN JsonFail
    ELSE JsonAfterValue(s, name, JsonScalar(s, SkipWs(s, colon + 1)), acc)

JsonAfterKey(s, key, acc) ==
    IF ~key.ok \/ key.v.t # "str" THEN JsonFail
    ELSE JsonAfterColon(s, key.v.s, SkipWs(s, key.next), acc)

JsonMembers(s, i, acc) == JsonAfterKey(s, JsonScalar(s, SkipWs(s, i)), acc)

JsonBad == [ok |-> FALSE, isObject |-> FALSE, v |-> Undefined]

\* the value r read from s, which must end the text
JsonWhole(s, r, isObject) ==
    IF r.ok /\ SkipWs(s, r.next) = Len(s) + 1
    THEN [ok |-> TRUE, isObject |-> isObject, v |-> r.v]
    ELSE JsonBad

\* the object whose "{" is at position i, `close` the next position that is
\* not white space
JsonObject(s, i, close) ==
    IF close <= Len(s) /\ s[close] = "}"
    THEN [ok |-> TRUE, v |-> EmptyObject, next |-> close + 1]
    ELSE JsonMembers(s, i + 1, EmptyObject)

JsonValueAt(s, i) ==
    IF i > Len(s) THEN JsonBad
    ELSE IF s[i] = "{" THEN JsonWhole(s, JsonObject(s, i, SkipWs(s, i + 1)), TRUE)
    ELSE JsonWhole(s, JsonScalar(s, i), FALSE)

\* JSON.parse for flat objects of scalars and for bare scalars: [ok, isObject, v].
\* ok = FALSE stands for the SyntaxError.  Every payload of the model that is
\* valid JSON has one of these shapes (no arrays, nesting, escapes or exponents).
JsonParse(s) == JsonValueAt(s, SkipWs(s, 1))

\* /([A-Za-z ]{2,})[:=]\s*([^;\n]+)/g
KeyValuePattern ==
    <<Cls(Letters \cup {" "}, 2, Unbounded), Cls({":", "="}, 1, 1),
      Cls(WhiteSpace, 0, Unbounded), NotCls({";", "\n"}, 1, Unbounded)>>

\* the matches of text.matchAll(KeyValuePattern) from position i, reduced into acc
RECURSIVE KeyValueReduce(_, _, _)

KeyValueNext(text, m, acc) ==
    IF ~m.ok THEN acc
    ELSE KeyValueReduce(text, m.b[5],
             SetProp(acc, ToLowerCase(Trim(Group(text, m, 1))),
                     Str(Trim(Group(text, m, 4)))))

KeyValueReduce(text, i, acc) == KeyValueNext(text, Search(KeyValuePattern, text, i), acc)

\* null when nothing matches, else the object of the pairs
extractKeyValuePairs(text) ==
    IF ~Search(KeyValuePattern, text, 1).ok THEN Null
    ELSE [t |-> "obj", o |-> KeyValueReduce(text, 1, EmptyObject)]

\* the number of days of a month
DaysInMonth(y, m) == DaysFromCivil(IF m = 12 THEN y + 1 ELSE y, IF m = 12 THEN 1 ELSE m + 1, 1)
                     - DaysFromCivil(y, m, 1)

\* \d{4}-\d{2}-\d{2}, the whole string
IsoDatePattern ==
    <<Bos, Cls(Digits, 4, 4), Lit(<<"-">>), Cls(Digits, 2, 2), Lit(<<"-">>),
      Cls(Digits, 2, 2), Eos>>

\* \d{1,2}/\d{1,2}/\d{2,4}, the whole string
SlashDatePattern ==
    <<Bos, Cls(Digits, 1, 2), Lit(<<"/">>), Cls(Digits, 1, 2), Lit(<<"/">>),
      Cls(Digits, 2, 4), Eos>>

\* the Date of ISO text year-month-day: midnight of that day
IsoDate(y, m, d, legacy) ==
    IF m < 1 \/ m > 12 \/ d < 1 \/ d > 31 THEN InvalidDate
    ELSE IF d <= DaysInMonth(y, m) \/ legacy
         THEN [t |-> "date", day |-> DaysFromCivil(y, m, d), ms |-> 0]
         ELSE InvalidDate

\* the Date of month/day/year text under an engine that reads it; a year of
\* two digits is taken in 1950..2049
SlashDate(m, d, y, yearDigits) ==
    IF m < 1 \/ m > 12 \/ d < 1 \/ d > 31 THEN InvalidDate
    ELSE [t |-> "date",
          day |-> DaysFromCivil(IF yearDigits = 2 THEN y + (IF y < 50 THEN 2000 ELSE 1900)
                                ELSE y, m, d),
          ms |-> 0]

DateOfMatches(s, iso, sl, legacy) ==
    IF iso.ok
    THEN IsoDate(IntOfDigits(Group(s, iso, 2)), IntOfDigits(Group(s, iso, 4)),
                 IntOfDigits(Group(s, iso, 6)), legacy)
    ELSE IF sl.ok /\ legacy
    THEN SlashDate(IntOfDigits(Group(s, sl, 2)), IntOfDigits(Group(s, sl, 4)),
                   IntOfDigits(Group(s, sl, 6)), Len(Group(s, sl, 6)))
    ELSE InvalidDate

\* new Date(string).  An ISO date is midnight of that day.  What is outside
\* the ISO format is left to the engine: with legacy = TRUE the engine reads
\* month/day/year text and rolls an ISO day past the end of its month over,
\* with legacy = FALSE it gives an invalid Date for both.  Any other text is
\* taken as unparseable (the model's payloads carry no month names or times).
ParseDateString(s, legacy) ==
    DateOfMatches(s, PathFrom(IsoDatePattern, 1, s, 1), PathFrom(SlashDatePattern, 1, s, 1),
                  legacy)

\* getValue of normalizeBillFields: the first of the keys (as written, else
\* lower-cased) holding a non-blank string or a number
RECURSIVE getValue(_, _, _)

getValueOf(data, keys, i, value) ==
    IF value.t = "str" /\ Trim(value.s) # <<>> THEN Str(Trim(value.s))
    ELSE IF IsNumber(value) THEN Str(NumToString(value))
    ELSE getValue(data, keys, i + 1)

getValue(data, keys, i) ==
    IF i > Len(keys) THEN Undefined
    ELSE getValueOf(data, keys, i,
                    Coalesce(Prop(data, keys[i]), Prop(data, ToLowerCase(keys[i]))))

\* line 277
AmountOfRaw(amountRaw) ==
    IF Truthy(amountRaw) THEN ParseFloat(KeepOnly(amountRaw.s, Digits \cup {"."}))
    ELSE Undefined

\* lines 279 and 286
DateOfRaw(dateRaw, legacy) ==
    IF Truthy(dateRaw) THEN ValidOrUndefined(ParseDateString(dateRaw.s, legacy))
    ELSE Undefined

normalizeBillFields(data, legacy) ==
    [billNumber |-> OrKeep(getValue(data, <<<<"b", "i", "l", "l", "N", "u", "m", "b", "e", "r">>, <<"b", "i", "l", "l">>, <<"t", "i", "c", "k", "e", "t">>,
                                            <<"i", "n", "v", "o", "i", "c", "e">>, <<"b", "i", "l", "l", "_", "n", "o">>>>, 1), Undefined),
     amount     |-> AmountOfRaw(getValue(data, <<<<"a", "m", "o", "u", "n", "t">>, <<"f", "a", "r", "e">>, <<"t", "o", "t", "a", "l">>>>, 1)),
     from       |-> getValue(data, <<<<"f", "r", "o", "m">>, <<"s", "o", "u", "r", "c", "e">>>>, 1),
     to         |-> getValue(data, <<<<"t", "o">>, <<"d", "e", "s", "t", "i", "n", "a", "t", "i", "o", "n">>>>, 1),
     date       |-> DateOfRaw(getValue(data, <<<<"d", "a", "t", "e">>, <<"b", "i", "l", "l", "D", "a", "t", "e">>>>, 1), legacy)]

hasBillValues(bill) ==
    \/ Truthy(bill.billNumber) /\ Len(bill.billNumber.s) > 0
    \/ IsNumber(bill.amount)
    \/ Truthy(bill.from) /\ Len(bill.from.s) > 0
    \/ Truthy(bill.to) /\ Len(bill.to.s) > 0
    \/ Truthy(bill.date)

\* the character the source writes as the rupee sign (U+20B9)
RupeeSign == "RUPEE"

OptWs == Cls(WhiteSpace, 0, Unbounded)
OptSep == Cls({":", "="}, 0, 1)

\* /(?:fare|total|amount|rs\.?|₹|inr)\s*[:=]?\s*(\d+(?:\.\d{1,2})?)/i
FreeAmountPattern ==
    <<Alt(<<LitCI(<<"f", "a", "r", "e">>), LitCI(<<"t", "o", "t", "a", "l">>), LitCI(<<"a", "m", "o", "u", "n", "t">>),
            Cat(<<LitCI(<<"r", "s">>), Opt(Lit(<<".">>))>>), Lit(<<RupeeSign>>), LitCI(<<"i", "n", "r">>)>>),
      OptWs, OptSep, OptWs,
      Cat(<<Cls(Digits, 1, Unbounded), Opt(Cat(<<Lit(<<".">>), Cls(Digits, 1, 2)>>))>>)>>

\* /(?:ticket|bill|invoice|receipt)\s*(?:no\.?|#|number|id)?\s*[:=]?\s*([A-Z0-9T-]+)/i
FreeBillPattern ==
    <<Alt(<<LitCI(<<"t", "i", "c", "k", "e", "t">>), LitCI(<<"b", "i", "l", "l">>), LitCI(<<"i", "n", "v", "o", "i", "c", "e">>), LitCI(<<"r", "e", "c", "e", "i", "p", "t">>)>>),
      OptWs,
      Opt(Alt(<<Cat(<<LitCI(<<"n", "o">>), Opt(Lit(<<".">>))>>), Lit(<<"#">>), LitCI(<<"n", "u", "m", "b", "e", "r">>),
                LitCI(<<"i", "d">>)>>)),
      OptWs, OptSep, OptWs,
      Cls(AlphaNum \cup {"-"}, 1, Unbounded)>>

\* (\d{1,2})[-/](\d{1,2})[-/](\d{2,4})
DayMonthYearPattern ==
    <<Cls(Digits, 1, 2), Cls({"-", "/"}, 1, 1), Cls(Digits, 1, 2), Cls({"-", "/"}, 1, 1),
      Cls(Digits, 2, 4)>>

\* /(?:date|dated|valid)\s*[:=]?\s*(\d{1,2}[-\/]\d{1,2}[-\/]\d{2,4})/i
FreeDatePattern ==
    <<Alt(<<LitCI(<<"d", "a", "t", "e">>), LitCI(<<"d", "a", "t", "e", "d">>), LitCI(<<"v", "a", "l", "i", "d">>)>>),
      OptWs, OptSep, OptWs, Cat(DayMonthYearPattern)>>

\* /from\s*[:=]?\s*([A-Z0-9\s]+)/i
FreeFromPattern ==
    <<LitCI(<<"f", "r", "o", "m">>), OptWs, OptSep, OptWs, Cls(AlphaNum \cup WhiteSpace, 1, Unbounded)>>

\* /to\s*[:=]?\s*([A-Z0-9\s]+)/i
FreeToPattern ==
    <<LitCI(<<"t", "o">>), OptWs, OptSep, OptWs, Cls(AlphaNum \cup WhiteSpace, 1, Unbounded)>>

\* match?.[group] of a match m on s, as a string value or undefined
GroupOf(s, m, group) == IF m.ok THEN Str(Group(s, m, group)) ELSE Undefined

\* s.match(pattern)?.[group]
MatchGroup(pattern, s, group) == GroupOf(s, Search(pattern, s, 1), group)

SwapGroups(dateText, m) ==
    IF ~m.ok THEN dateText
    ELSE SubSeq(dateText, 1, m.b[1] - 1)
         \o Group(dateText, m, 3) \o <<"/">> \o Group(dateText, m, 1) \o <<"/">>
         \o Group(dateText, m, 5) \o Drop(dateText, m.b[6])

\* dateText.replace(/(\d{1,2})[-/](\d{1,2})[-/](\d{2,4})/, '$2/$1/$3')
SwapDayMonth(dateText) == SwapGroups(dateText, Search(DayMonthYearPattern, dateText, 1))

\* lines 311-318
FreeTextDate(dateMatch, legacy) ==
    IF Truthy(dateMatch)
    THEN ValidOrUndefined(ParseDateString(SwapDayMonth(dateMatch.s), legacy))
    ELSE Undefined

\* line 322
FreeTextAmount(amountMatch) ==
    IF Truthy(amountMatch) THEN ParseFloat(amountMatch.s) ELSE Undefined

\* lines 324-325
TrimmedGroup(match) == IF Truthy(match) THEN Str(Trim(match.s)) ELSE Undefined

extractBillFromFreeText(text, legacy) ==
    IF text = <<>> THEN Null
    ELSE [billNumber |-> MatchGroup(FreeBillPattern, text, 7),
          amount     |-> FreeTextAmount(MatchGroup(FreeAmountPattern, text, 5)),
          date       |-> FreeTextDate(MatchGroup(FreeDatePattern, text, 5), legacy),
          from       |-> TrimmedGroup(MatchGroup(FreeFromPattern, text, 5)),
          to         |-> TrimmedGroup(MatchGroup(FreeToPattern, text, 5))]

-----------------------------------------------------------------------------
(* The payloads the scanner is fed *)

Pad2(n) == IF n < 10 THEN <<"0">> \o DigitsOf(n) ELSE DigitsOf(n)

\* the largest year number written in a route block's date triple
MaxRouteYear == 99

\* choices for segment 4 of a data block: a compact timestamp, one whose month
\* rolls the year over, one with a day past the end of the month, a ticket
\* number, a short number
Seg4Choices ==
    {<<"2", "0", "2", "4", "0", "1", "1", "5", "T", "1", "1", "3", "0", "0", "0">>, <<"2", "0", "2", "4", "1", "3", "1", "5", "T", "1", "1", "3", "0", "0", "0">>, <<"2", "0", "2", "4", "0", "2", "3", "1", "T", "0", "9", "3", "0">>, <<"T", "K", "1", "2", "3", "4", "5", "6", "7", "8", "9", "0">>,
     <<"4", "7", "1", "1">>}

\* choices for segment 5: hexadecimal floats, a decimal amount, a plain word
Seg5Choices == {<<"0", "x", "1", ".", "8", "p", "+", "3">>, <<"0", "x", "1", "p", "3">>, <<"0", "x", "A", "p", "-", "1">>, <<"1", "2", ".", "5", "0">>, <<"F">>}

\* choices for segment 0: present or empty
Seg0Choices == {<<"A">>, <<>>}

\* choices for a route block after the data block: none, station names, names and a date
RouteChoices == {<<>>, <<"{", "<", "P", "C", "M", "C", " ", "M", "e", "t", "r", "o", ">", "<", "S", "w", "a", "r", "g", "a", "t", "e", ">", "}">>, <<"{", "<", "C", "i", "v", "i", "l", " ", "C", "o", "u", "r", "t", ">", "<", "V", "a", "n", "a", "z", ">", "<", "0", "5", "|", "0", "6", "|", "2", "3", ">", "}">>}

DataBlockPayload(s0, s4, s5, route) ==
    <<"{">> \o Join(<<s0, <<"B">>, <<"C">>, <<"D">>, s4, s5, <<"G">>, <<"s", "t", "n", "1">>, <<"S", "T", "N", "2">>>>, <<"|">>)
    \o <<"}">> \o route

SegmentedPayloads ==
    {DataBlockPayload(s0, s4, s5, r) :
        s0 \in Seg0Choices, s4 \in Seg4Choices, s5 \in Seg5Choices, r \in RouteChoices}

\* day and month choices of a route block's date triple
DayMonthChoices == {<<5, 6>>, <<31, 12>>, <<30, 2>>}

RoutePayload(dm, yy) ==
    <<"{", "<", "P", "i", "m", "p", "r", "i", ">", "<", "S", "w", "a", "r", "g", "a", "t", "e", ">", "<">> \o Pad2(dm[1]) \o <<"|">> \o Pad2(dm[2]) \o <<"|">>
    \o Pad2(yy) \o <<">", "}">>

RouteDatePayloads == {RoutePayload(dm, yy) : dm \in DayMonthChoices, yy \in 0..MaxRouteYear}

OtherPayloads ==
    {\* JSON objects: with fields, without a known field, empty
     <<"{", "\"", "b", "i", "l", "l", "N", "u", "m", "b", "e", "r", "\"", ":", "\"", "T", "K", "7", "7", "8", "8", "9", "9", "\"", ",", "\"", "a", "m", "o", "u", "n", "t", "\"", ":", "2", "5", ",", "\"", "d", "a", "t", "e", "\"", ":", "\"", "2", "0", "2", "4", "-", "0", "1", "-", "1", "5", "\"", "}">>,
     <<"{", "\"", "f", "a", "r", "e", "\"", ":", "\"", "R", "s", " ", "3", "0", ".", "5", "0", "\"", ",", "\"", "f", "r", "o", "m", "\"", ":", "\"", "V", "a", "n", "a", "z", "\"", ",", "\"", "t", "o", "\"", ":", "\"", "R", "a", "m", "w", "a", "d", "i", "\"", "}">>,
     <<"{", "\"", "a", "m", "o", "u", "n", "t", "\"", ":", "\"", "f", "r", "e", "e", "\"", "}">>,
     <<"{", "\"", "n", "o", "t", "e", "\"", ":", "\"", "f", "a", "r", "e", " ", "2", "0", "\"", "}">>,
     <<"{", "\"", "m", "e", "m", "o", "\"", ":", "\"", "t", "i", "c", "k", "e", "t", "=", "T", "K", "5", "5", "6", "6", ";", "f", "a", "r", "e", "=", "1", "5", "\"", "}">>,
     <<"{", "}">>,
     \* JSON scalars
     <<"1", "7", "0", "0", "0", "0", "0", "0", "0", "0">>,
     <<"\"", "t", "i", "c", "k", "e", "t", " ", "T", "K", "9", "9", "1", "1", "\"">>,
     <<"n", "u", "l", "l">>,
     \* key/value text
     <<"t", "i", "c", "k", "e", "t", "=", "T", "K", "1", "2", "3", "4", "5", "6", ";", "f", "a", "r", "e", "=", "2", "0", ";", "d", "a", "t", "e", "=", "2", "0", "2", "4", "-", "0", "2", "-", "3", "0">>,
     <<"B", "i", "l", "l", ":", " ", "B", "-", "1", "0", "0", "\n", "A", "m", "o", "u", "n", "t", ":", " ", "1", "2", ".", "5", "\n", "F", "r", "o", "m", ":", " ", "P", "i", "m", "p", "r", "i", "\n", "T", "o", ":", " ", "S", "w", "a", "r", "g", "a", "t", "e">>,
     <<"n", "o", "t", "e", ":", " ", "f", "a", "r", "e", " ", "4", "5">>,
     <<"i", "d", "=", "7", "7", "|", "r", "e", "f", "=", "x">>,
     \* a segmented payload behind a label, one with too few segments, one with
     \* an epoch time, one whose route block holds three bars
     <<"x", "{", "A", "|", "B", "|", "2", "0", "2", "4", "0", "1", "1", "5", "T", "1", "1", "3", "0", "0", "0", "|", "0", "x", "1", ".", "8", "p", "+", "3", "}">>,
     <<"{", "A", "|", "B", "|", "C", "}">>,
     <<"{", "M", "|", "1", "7", "0", "0", "0", "0", "0", "0", "0", "0", "|", "C", "|", "D", "|", "E", "5", "}">>,
     <<"{", "<", "A", "|", "1", ">", "<", "B", "|", "2", ">", "<", "0", "5", "|", "0", "6", "|", "7", "5", ">", "}">>,
     <<"a", "|", "b">>,
     \* free text
     <<"T", "i", "c", "k", "e", "t", " ", "N", "o", " ", "T", "K", "4", "4", "5", "5", "6", "6", " ", "F", "a", "r", "e", " ", "3", "5", " ", "D", "a", "t", "e", "d", " ", "1", "5", "/", "0", "1", "/", "2", "0", "2", "4">>,
     <<"t", "i", "c", "k", "e", "t", " ", "n", "u", "m", "b", "e", "r">>,
     <<"v", "a", "l", "i", "d", " ", "3", "1", "-", "1", "2", "-", "9", "9", " ", "f", "r", "o", "m", " ", "V", "a", "n", "a", "z", " ", "t", "o", " ", "R", "a", "m", "w", "a", "d", "i">>,
     <<"h", "e", "l", "l", "o">>,
     <<" ", " ">>}

Payloads == SegmentedPayloads \cup RouteDatePayloads \cup OtherPayloads

-----------------------------------------------------------------------------
(* QRScannerScreen: handleBarcodeScanned, the steps of parseQRCodeData,     *)
(* handleRetake                                                            *)

StrategyOrder == <<"json", "kv", "custom", "free">>

\* `x && hasBillValues(x)`
hasBillValuesOrNull(candidate) == candidate # Null /\ hasBillValues(candidate)

\* `customBill && hasBillValues(customBill) ? customBill : null` and its like
Accepted(candidate) == IF hasBillValuesOrNull(candidate) THEN candidate ELSE Null

\* lines 216-218: the normalized fields of a JSON object, Null for "no object"
JsonNormalized(parsedJson, legacy) ==
    IF parsedJson.ok /\ parsedJson.isObject THEN normalizeBillFields(parsedJson.v, legacy)
    ELSE Null

\* what each strategy yields for a payload: Null for "no candidate"
JsonCandidate(data, legacy) == JsonNormalized(JsonParse(data), legacy)

\* line 230
KeyValueNormalized(kvPairs, legacy) ==
    IF kvPairs # Null THEN normalizeBillFields(kvPairs.o, legacy) ELSE Null

KeyValueCandidate(data, legacy) == KeyValueNormalized(extractKeyValuePairs(data), legacy)

NoParsed == Null

QRInit ==
    /\ qrPc = "idle"
    /\ qrData = <<>>
    /\ qrLegacy = FALSE
    /\ qrBill = Null
    /\ qrRan = <<>>
    /\ qrOut = <<>>
    /\ qrSplit = FALSE
    /\ parsed = NoParsed

\* handleBarcodeScanned, `parsed` unset: parseQRCodeData starts on data.trim()
Scan(data, legacy) ==
    /\ qrPc = "idle"
    /\ parsed = NoParsed
    /\ qrPc' = "json"
    /\ qrData' = Trim(data)
    /\ qrLegacy' = legacy
    /\ qrBill' = Null
    /\ qrRan' = <<>>
    /\ qrOut' = <<>>
    /\ qrSplit' = FALSE
    /\ UNCHANGED parsed
    /\ UNCHANGED <<ocrVars, txtVars, authVars, ldVars, camVars>>

\* handleBarcodeScanned, `parsed` set: returns at once
ScanIgnored ==
    /\ qrPc = "idle"
    /\ parsed # NoParsed
    /\ UNCHANGED <<qrVars, txtVars, authVars, ldVars, camVars>>
    /\ UNCHANGED <<ocrVars, txtVars, authVars, ldVars, camVars>>

\* lines 215-227: a JSON object is normalized and returned, accepted or not
TryJson ==
    /\ qrPc = "json"
    /\ \E candidate \in {JsonCandidate(qrData, qrLegacy)} :
           /\ qrRan' = Append(qrRan, "json")
           /\ qrOut' = Append(qrOut, candidate)
           /\ qrBill' = Accepted(candidate)
           /\ qrPc' = IF candidate # Null THEN "return" ELSE "kv"
    /\ UNCHANGED <<qrData, qrLegacy, qrSplit, parsed>>
    /\ UNCHANGED <<ocrVars, txtVars, authVars, ldVars, camVars>>

\* lines 229-231 with the acceptance test left out of the branch
TryKeyValue_NoStop ==
    /\ qrPc = "kv"
    /\ \E candidate \in {KeyValueCandidate(qrData, qrLegacy)} :
           /\ qrRan' = Append(qrRan, "kv")
           /\ qrOut' = Append(qrOut, candidate)
           /\ qrBill' = Accepted(candidate)
           /\ qrPc' = "custom"
    /\ UNCHANGED <<qrData, qrLegacy, qrSplit, parsed>>
    /\ UNCHANGED <<ocrVars, txtVars, authVars, ldVars, camVars>>

\* lines 229-231
TryKeyValue ==
    /\ qrPc = "kv"
    /\ \E candidate \in {KeyValueCandidate(qrData, qrLegacy)} :
           /\ qrRan' = Append(qrRan, "kv")
           /\ qrOut' = Append(qrOut, candidate)
           /\ qrBill' = Accepted(candidate)
           /\ qrPc' = IF hasBillValuesOrNull(candidate) THEN "return" ELSE "custom"
    /\ UNCHANGED <<qrData, qrLegacy, qrSplit, parsed>>
    /\ UNCHANGED <<ocrVars, txtVars, authVars, ldVars, camVars>>

\* lines 233-236
TryCustom ==
    /\ qrPc = "custom"
    /\ \E candidate \in {parseCustomMetroPayload(qrData)} :
           /\ qrRan' = Append(qrRan, "custom")
           /\ qrOut' = Append(qrOut, candidate)
           /\ qrSplit' = PassesPipeGuard(qrData)
           /\ qrBill' = Accepted(candidate)
           /\ qrPc' = IF hasBillValuesOrNull(candidate) THEN "return" ELSE "free"
    /\ UNCHANGED <<qrData, qrLegacy, parsed>>
    /\ UNCHANGED <<ocrVars, txtVars, authVars, ldVars, camVars>>

\* lines 238-241
TryFreeText ==
    /\ qrPc = "free"
    /\ \E candidate \in {extractBillFromFreeText(qrData, qrLegacy)} :
           /\ qrRan' = Append(qrRan, "free")
           /\ qrOut' = Append(qrOut, candidate)
           /\ qrBill' = Accepted(candidate)
           /\ qrPc' = "return"
    /\ UNCHANGED <<qrData, qrLegacy, qrSplit, parsed>>
    /\ UNCHANGED <<ocrVars, txtVars, authVars, ldVars, camVars>>

\* lines 243-246 and setParsed(parsedResult); the locals of parseQRCodeData
\* end with the call
Return ==
    /\ qrPc = "return"
    /\ parsed' = [t |-> "parsed", raw |-> qrData, bill |-> qrBill]
    /\ qrPc' = "idle"
    /\ qrData' = <<>>
    /\ qrLegacy' = FALSE
    /\ qrBill' = Null
    /\ qrRan' = <<>>
    /\ qrOut' = <<>>
    /\ qrSplit' = FALSE
    /\ UNCHANGED <<ocrVars, txtVars, authVars, ldVars, camVars>>

handleRetake ==
    /\ qrPc = "idle"
    /\ parsed # NoParsed
    /\ parsed' = NoParsed
    /\ UNCHANGED <<qrPc, qrData, qrLegacy, qrBill, qrRan, qrOut, qrSplit>>
    /\ UNCHANGED <<ocrVars, txtVars, authVars, ldVars, camVars>>

QRNext ==
    \/ \E data \in Payloads : \E legacy \in BOOLEAN : Scan(data, legacy)
    \/ ScanIgnored
    \/ TryJson
    \/ TryKeyValue
    \/ TryCustom
    \/ TryFreeText
    \/ Return
    \/ handleRetake


-----------------------------------------------------------------------------
(* OCRService: the heuristics applied to recognized text.  Two copies of  *)
(* the service are modelled: components/ErrorBoundary.tsx lines 131-326,  *)
(* which scans the image for a QR code, and unnamed/part_002, which       *)
(* validates the text as a Pune Metro ticket.  Definitions of the second  *)
(* copy end in "Metro".                                                   *)

\* String.prototype.includes for a substring
IncludesText(s, sub) == \E i \in 1..(Len(s) - Len(sub) + 1) : MatchAt(s, sub, i)

StartsWith(s, prefix) == MatchAt(s, prefix, 1)

\* s.split(/[...]/) for a class of one-character separators
RECURSIVE SplitAny(_, _)
SplitAny(s, seps) ==
    IF RunLenNot(s, 1, seps) = Len(s) THEN <<s>>
    ELSE <<SubSeq(s, 1, RunLenNot(s, 1, seps))>>
         \o SplitAny(Drop(s, RunLenNot(s, 1, seps) + 2), seps)

\* the characters of s that are outside `class`, in order
RECURSIVE DropAll(_, _)
DropAll(s, class) ==
    IF s = <<>> THEN <<>>
    ELSE IF Head(s) \in class THEN DropAll(Tail(s), class)
         ELSE <<Head(s)>> \o DropAll(Tail(s), class)

\* match[0]: the text a match covers, '' when there is no match
MatchText(s, m) == IF m.ok THEN SubSeq(s, m.b[1], m.b[Len(m.b)] - 1) ELSE <<>>

\* a || b
Or(a, b) == IF Truthy(a) THEN a ELSE b

\* {...a, ...b}: the properties of a, then those of b over them
Spread(a, b) == [k \in DOMAIN a \cup DOMAIN b |-> IF k \in DOMAIN b THEN b[k] ELSE a[k]]

\* Object.keys(obj).length > 0
HasKeys(obj) == DOMAIN obj # {}

\* whether a run of two or more blanks or tabs starts at position k
IsGapAt(text, k) ==
    /\ text[k] \in {" ", "\t"}
    /\ k + 1 <= Len(text)
    /\ text[k + 1] \in {" ", "\t"}

\* text.replace(/[ \t]{2,}/g, '\n'), from position i on
RECURSIVE ColumnsToLines(_, _)

ColumnsFromGap(text, i, gap) ==
    SubSeq(text, i, gap - 1) \o <<"\n">>
    \o ColumnsToLines(text, gap + RunLen(text, gap, {" ", "\t"}))

ColumnsToLines(text, i) ==
    IF \E k \in i..Len(text) : IsGapAt(text, k)
    THEN ColumnsFromGap(text, i,
             CHOOSE k \in i..Len(text) :
                 IsGapAt(text, k) /\ \A j \in i..(k - 1) : ~IsGapAt(text, j))
    ELSE Drop(text, i)

\* lines 231-235
rawLines(text) == FilterNonEmpty(TrimAll(Split(ColumnsToLines(text, 1), "\n")))

\* lines 238-240: the first day/month/year text, '' without one
dateVal(text) == MatchText(text, Search(DayMonthYearPattern, text, 1))

\* \d+(?:\.\d+)?
DecimalNumber == Cat(<<Cls(Digits, 1, Unbounded), Opt(Cat(<<Lit(<<".">>), Cls(Digits, 1, Unbounded)>>))>>)

\* /INR\s*(\d+(?:\.\d+)?)/i
InrPattern == <<LitCI(<<"I", "N", "R">>), OptWs, DecimalNumber>>

\* /\b(\d+\.\d{1,2})\b/
FloatPattern == <<WordB, Cat(<<Cls(Digits, 1, Unbounded), Lit(<<".">>), Cls(Digits, 1, 2)>>), WordB>>

\* lines 247-248
FloatValue(text, floatMatch) == IF floatMatch.ok THEN Group(text, floatMatch, 2) ELSE <<>>

\* lines 243-249
AmountValOf(text, inrMatch) ==
    IF inrMatch.ok THEN <<"I", "N", "R", " ">> \o Group(text, inrMatch, 3)
    ELSE FloatValue(text, Search(FloatPattern, text, 1))

amountVal(text) == AmountValOf(text, Search(InrPattern, text, 1))

\* DATE|FROM|TO|FARE|TICKET|VALID|PLATFORM|INR
LabelWords ==
    <<<<"D", "A", "T", "E">>, <<"F", "R", "O", "M">>, <<"T", "O">>, <<"F", "A", "R", "E">>, <<"T", "I", "C", "K", "E", "T">>, <<"V", "A", "L", "I", "D">>, <<"P", "L", "A", "T", "F", "O", "R", "M">>, <<"I", "N", "R">>>>

HasLabelWord(upper) == \E k \in DOMAIN LabelWords : IncludesText(upper, LabelWords[k])

\* lines 251-259: the test of the filter
IsLocationCandidate(line) ==
    /\ line = ToUpperCase(line)
    /\ Len(line) >= 3
    /\ ~(HasLabelWord(ToUpperCase(line)) /\ Len(line) < 10)
    /\ \A i \in DOMAIN line : line[i] \notin Digits

locationCandidates(lines) == SelectSeq(lines, IsLocationCandidate)

\* locationCandidates[k] || ''
CandidateAt(candidates, k) == IF k + 1 <= Len(candidates) THEN candidates[k + 1] ELSE <<>>

fromVal(text) == CandidateAt(locationCandidates(rawLines(text)), 0)
toVal(text) == CandidateAt(locationCandidates(rawLines(text)), 1)

labels ==
    <<<<"D", "a", "t", "e">>, <<"F", "r", "o", "m">>, <<"T", "o">>, <<"F", "a", "r", "e">>, <<"C", "h", "a", "r", "g", "e">>, <<"A", "m", "o", "u", "n", "t">>, <<"T", "i", "c", "k", "e", "t">>, <<"B", "i", "l", "l">>,
      <<"I", "n", "v", "o", "i", "c", "e">>>>

SeparatorChars == {":", "-", " ", "\t"}

\* line.substring(label.length).replace(/^[:\- \t]+/, '')
AfterLabel(line, label) ==
    Drop(line, Len(label) + 1 + RunLen(line, Len(label) + 1, SeparatorChars))

\* lines 279-280
LabelledLine(label, value) == IF value # <<>> THEN label \o <<" ", ":", " ">> \o value ELSE label

\* lines 276-283: the first label the line starts with, letter case aside
RECURSIVE WithLabel(_, _)
WithLabel(line, k) ==
    IF k > Len(labels) THEN line
    ELSE IF StartsWith(ToLowerCase(line), ToLowerCase(labels[k]))
         THEN LabelledLine(labels[k], Trim(AfterLabel(line, labels[k])))
    ELSE WithLabel(line, k + 1)

\* line 274
IsAmountLine(line, amount) == line = amount \/ (IncludesText(amount, line) /\ Len(line) > 2)

\* lines 266-284 for one line
ReconstructedLine(line, from, to, date, amount) ==
    IF line = from THEN <<"F", "r", "o", "m", " ", ":", " ">> \o line
    ELSE IF line = to THEN <<"T", "o", " ", ":", " ">> \o line
    ELSE IF line = date THEN <<"D", "a", "t", "e", " ", ":", " ">> \o line
    ELSE IF IsAmountLine(line, amount) THEN <<"F", "a", "r", "e", " ", ":", " ">> \o line
    ELSE WithLabel(line, 1)

reconstructedLines(lines, from, to, date, amount) ==
    [i \in DOMAIN lines |-> ReconstructedLine(lines[i], from, to, date, amount)]

\* lines 287-295: a bare label goes when the next line is its labelled version
IsDroppedLabel(lines, i, labelList) ==
    /\ \E k \in DOMAIN labelList : lines[i] = labelList[k]
    /\ i + 1 <= Len(lines)
    /\ StartsWith(lines[i + 1], lines[i] \o <<" ", ":">>)

RECURSIVE finalLines(_, _, _)
finalLines(lines, i, labelList) ==
    IF i > Len(lines) THEN <<>>
    ELSE (IF IsDroppedLabel(lines, i, labelList) THEN <<>> ELSE <<lines[i]>>)
         \o finalLines(lines, i + 1, labelList)

\* line 297
cleanedText(text) ==
    Join(finalLines(reconstructedLines(rawLines(text), fromVal(text), toVal(text),
                                       dateVal(text), amountVal(text)),
                    1, labels),
         <<"\n">>)

\* a number read by parseInt, NaN included, as [ok, v]
NotANumber(n) == ~n.ok

\* new Date(year, monthIndex, day) of numbers parseInt gave: NaN makes the Date invalid
DateOfNumbers(year, month, day) ==
    IF NotANumber(year) \/ NotANumber(month) \/ NotANumber(day) THEN InvalidDate
    ELSE MakeDate(year.v, month.v - 1, day.v, 0, 0, 0, 0)

\* parts[k] read by parseInt; a missing part reads as NaN
PartNumber(parts, k) ==
    IF k + 1 <= Len(parts) THEN ParseIntDec(parts[k + 1]) ELSE [ok |-> FALSE, v |-> 0]

\* lines 302-303
DateOfDateParts(parts) ==
    DateOfNumbers(PartNumber(parts, 2), PartNumber(parts, 1), PartNumber(parts, 0))

\* new Date(): the Date of the clock, which reads milliseconds since the epoch
DateOfClock(now) == MillisDate(now)

\* lines 300-304
dateObj(date, now) ==
    IF date # <<>> THEN DateOfDateParts(SplitAny(date, {"/", "-"})) ELSE DateOfClock(now)

\* parseFloat(amountVal.replace(/[^0-9.]/g, '')) || 0
AmountOfText(amount) == Or(ParseFloat(KeepOnly(amount, Digits \cup {"."})), Num(0, 1))

\* /(?:Ticket|Bill)\s*(?:N0|No|#)\s*[:\-]?\s*([A-Z0-9T]+)/i
TicketNumberPattern ==
    <<Alt(<<LitCI(<<"T", "i", "c", "k", "e", "t">>), LitCI(<<"B", "i", "l", "l">>)>>), OptWs,
      Alt(<<LitCI(<<"N", "0">>), LitCI(<<"N", "o">>), Lit(<<"#">>)>>), OptWs,
      Cls({":", "-"}, 0, 1), OptWs, Cls(AlphaNum, 1, Unbounded)>>

\* `BILL${Date.now()}`
GeneratedBillNumber(now) == Str(<<"B", "I", "L", "L">> \o now)

Unknown == <<"U", "n", "k", "n", "o", "w", "n">>

\* lines 229-314
parseWithHeuristics(text, now) ==
    [billNumber    |-> Or(MatchGroup(TicketNumberPattern, text, 7), GeneratedBillNumber(now)),
     amount        |-> AmountOfText(amountVal(text)),
     date          |-> dateObj(dateVal(text), now),
     from          |-> Or(Str(fromVal(text)), Str(Unknown)),
     to            |-> Or(Str(toVal(text)), Str(Unknown)),
     extractedText |-> Str(cleanedText(text))]

\* lines 316-325
getMockData(now) ==
    [billNumber    |-> Str(<<"M", "O", "C", "K">> \o now),
     amount        |-> Num(0, 1),
     date          |-> DateOfClock(now),
     from          |-> Str(Unknown),
     to            |-> Str(Unknown),
     extractedText |-> Str(<<"O", "C", "R", " ", "F", "a", "i", "l", "e", "d">>)]

-----------------------------------------------------------------------------
(* OCRService of unnamed/part_002: ticket validation, CO2, amount and      *)
(* ticket-number heuristics                                                *)

\* the Bengali digits the source writes in its patterns: zero and four
BengaliZero == <<"U+09E6">>[1]
BengaliFour == <<"U+09EA">>[1]

\* /(?:C[O0o০]?|০০)2+|CO/i
Co2MarkPattern ==
    <<Alt(<<Cat(<<Alt(<<Cat(<<LitCI(<<"C">>), Cls({"O", "o", "0", BengaliZero}, 0, 1)>>),
                        Lit(<<BengaliZero, BengaliZero>>)>>),
                  Cls({"2"}, 1, Unbounded)>>),
            LitCI(<<"C", "O">>)>>)>>

\* line 105-106
hasTicketInfo(text) ==
    \/ IncludesText(text, <<"U+0924", "U+093F", "U+0915", "U+0940", "U+091F">>)
    \/ /\ IncludesText(ToUpperCase(text), <<"T", "I", "C", "K", "E", "T", " ", "N", "O">>)
       /\ IncludesText(ToUpperCase(text), <<"J", "O", "U", "R", "N", "E", "Y", " ", "T", "I", "C", "K", "E", "T">>)

\* lines 102-112
isValidPuneMetroTicket(text) == hasTicketInfo(text) /\ Test(Co2MarkPattern, text)

\* /(?:INR|Rs|₹)\.?\s*(\d+(?:\.\d+)?)/i
CurrencyPattern ==
    <<Alt(<<LitCI(<<"I", "N", "R">>), LitCI(<<"R", "s">>), Lit(<<RupeeSign>>)>>), Opt(Lit(<<".">>)), OptWs,
      DecimalNumber>>

\* lines 157-163
AmountValOfMetro(text, currencyMatch) ==
    IF currencyMatch.ok THEN MatchText(text, currencyMatch)
    ELSE FloatValue(text, Search(FloatPattern, text, 1))

amountValMetro(text) == AmountValOfMetro(text, Search(CurrencyPattern, text, 1))

\* the characters of the number part: [0-9০oO\s.Ss৪,]
Co2NumberChars ==
    Digits \cup WhiteSpace \cup {BengaliZero, BengaliFour, "o", "O", ".", "S", "s", ","}

\* the units of line 191, in the order the pattern lists them
Co2Units ==
    <<LitCI(<<"g">>), LitCI(<<"g", "m">>), LitCI(<<"g", "r", "a", "m">>), Lit(<<"U+0917", "U+094D", "U+0930", "U+0947", "U+092E">>), Lit(<<"U+0917", "U+094D", "U+0930", "U+0947", "U+0902", "U+092E">>),
      Lit(<<"U+092A", "U+094D", "U+0930", "U+0947", "U+092E">>), Lit(<<"U+092A", "U+094D", "U+0930", "U+0947", "U+0902", "U+092E">>), Lit(<<"U+092A", "U+094D", "U+0930", "U+092E">>), Lit(<<"U+092A", "U+094D", "U+092E">>), Lit(<<"U+0917", "U+094D", "U+0930", "U+0945", "U+092E">>),
      Lit(<<"U+0917", "U+094D", "U+0930", "U+0949", "U+092E">>), Lit(<<"U+0917", "U+094D", "U+092E">>), Lit(<<"U+0917", "U+092A", "U+094D", "U+0930", "U+0947", "U+092E">>), Lit(<<"U+092E", "U+094D", "U+0930", "U+0947", "U+092E">>), Lit(<<"U+092A", "U+0930", "U+092E">>),
      Lit(<<"U+0917", "U+094D", "U+0930", "U+0947", "U+092D">>), Lit(<<"U+092B", "U+092E">>), Lit(<<"U+092E">>), LitCI(<<"g", "r", "a", "m", "s">>),
      Cat(<<Lit(<<"U+0917">>), OptWs, Lit(<<"U+094D", "U+0930", "U+092E">>)>>), Lit(<<"U+099F", "U+0930", "U+0947", "U+092E">>),
      Cat(<<Lit(<<"U+092A", "U+094D", "U+0930", "U+0947">>), OptWs, Lit(<<"U+092E">>)>>)>>

\* \(?\s*[C0O০o]\s*[O0০o]?\s*2+|CO  under the i flag
Co2Formula ==
    Alt(<<Cat(<<Opt(Lit(<<"(">>)), OptWs, Cls({"C", "c", "0", "O", "o", BengaliZero}, 1, 1),
                OptWs, Cls({"O", "o", "0", BengaliZero}, 0, 1), OptWs,
                Cls({"2"}, 1, Unbounded)>>),
          LitCI(<<"C", "O">>)>>)

\* co2Regex of line 191
co2Regex == <<Cls(Co2NumberChars, 1, Unbounded), OptWs, Alt(Co2Units), OptWs, Co2Formula>>

\* lines 198-202: Bengali zero and o to 0, s to 5, Bengali four to 8
NormalizedDigit(c) ==
    IF c \in {BengaliZero, "o", "O"} THEN "0"
    ELSE IF c \in {"s", "S"} THEN "5"
    ELSE IF c = BengaliFour THEN "8"
    ELSE c

NormalizedDigits(rawNumber) == [i \in DOMAIN rawNumber |-> NormalizedDigit(rawNumber[i])]

\* line 212 with every run of white space dropped
FirstGapAsPoint_Dropped(trimmed) == DropAll(trimmed, WhiteSpace)

\* rawNumber.trim().replace(/\s+/, '.').replace(/\s/g, '')
FirstGapAsPoint(trimmed) ==
    IF RunLenNot(trimmed, 1, WhiteSpace) = Len(trimmed) THEN trimmed
    ELSE SubSeq(trimmed, 1, RunLenNot(trimmed, 1, WhiteSpace)) \o <<".">>
         \o DropAll(Drop(trimmed, RunLenNot(trimmed, 1, WhiteSpace) + 1), WhiteSpace)

\* lines 205-213
WithoutSpaces(rawNumber) ==
    IF Includes(rawNumber, ".") THEN DropAll(rawNumber, WhiteSpace \cup {","})
    ELSE FirstGapAsPoint(Trim(rawNumber))

\* lines 220-222 left out
AtMostTwo_Unscaled(v) == v

\* lines 220-222: while (co2Value > 2) co2Value /= 10
RECURSIVE AtMostTwo(_)
AtMostTwo(v) == IF v.num > 2 * v.den THEN AtMostTwo(Num(v.num, v.den * 10)) ELSE v

\* parseFloat(v.toFixed(2)) of a number that is not negative: two decimals,
\* the nearer one, the larger of two equally near
ToFixedTwo(v) == Num((2 * 100 * v.num + v.den) \div (2 * v.den), 100)

\* lines 216-225
Co2Text(co2Value) ==
    IF co2Value.t # "num" THEN <<>>
    ELSE NumToString(ToFixedTwo(AtMostTwo(co2Value))) \o <<" ", "g", " ", "C", "O", "2">>

\* lines 192-226
Co2OfMatch(text, co2Match) ==
    IF ~co2Match.ok THEN <<>>
    ELSE Co2Text(ParseFloat(WithoutSpaces(NormalizedDigits(Group(text, co2Match, 1)))))

co2Saved(text) == Co2OfMatch(text, Search(co2Regex, text, 1))

labelsMetro ==
    <<<<"D", "a", "t", "e">>, <<"F", "r", "o", "m">>, <<"T", "o">>, <<"F", "a", "r", "e">>, <<"C", "h", "a", "r", "g", "e">>, <<"A", "m", "o", "u", "n", "t">>, <<"T", "i", "c", "k", "e", "t">>, <<"T", "i", "c", "k", "a", "t">>,
      <<"B", "i", "l", "l">>, <<"I", "n", "v", "o", "i", "c", "e">>>>

\* /^(?:NO|N0|Number|#)[:\- \t]*/i
NumberWordPattern ==
    <<Alt(<<LitCI(<<"N", "O">>), LitCI(<<"N", "0">>), LitCI(<<"N", "u", "m", "b", "e", "r">>), Lit(<<"#">>)>>),
      Cls(SeparatorChars, 0, Unbounded)>>

\* value.replace(/^(?:NO|N0|Number|#)[:\- \t]*/i, '')
AfterMatch(value, m) == IF m.ok THEN Drop(value, m.b[Len(m.b)]) ELSE value

AfterNumberWord(value) == AfterMatch(value, PathFrom(NumberWordPattern, 1, value, 1))

\* line 249
displayLabel(label) == IF label = <<"T", "i", "c", "k", "a", "t">> THEN <<"T", "i", "c", "k", "e", "t">> ELSE label

\* lines 240-254
RECURSIVE WithLabelMetro(_, _)
WithLabelMetro(line, k) ==
    IF k > Len(labelsMetro) THEN line
    ELSE IF StartsWith(ToLowerCase(line), ToLowerCase(labelsMetro[k]))
         THEN LabelledLine(displayLabel(labelsMetro[k]),
                           Trim(AfterNumberWord(AfterLabel(line, labelsMetro[k]))))
    ELSE WithLabelMetro(line, k + 1)

\* lines 230-256 for one line
ReconstructedLineMetro(line, date, amount) ==
    IF line = date THEN <<"D", "a", "t", "e", " ", ":", " ">> \o line
    ELSE IF IsAmountLine(line, amount) THEN <<"F", "a", "r", "e", " ", ":", " ">> \o line
    ELSE WithLabelMetro(line, 1)

reconstructedLinesMetro(lines, date, amount) ==
    [i \in DOMAIN lines |-> ReconstructedLineMetro(lines[i], date, amount)]

\* line 269
cleanedTextMetro(text) ==
    Join(finalLines(reconstructedLinesMetro(rawLines(text), dateVal(text), amountValMetro(text)),
                    1, labelsMetro),
         <<"\n">>)

\* lines 282-284 left out
WithoutMisreadRupee_Kept(v) == v

\* lines 282-284
WithoutMisreadRupee(v) ==
    IF v.num >= 200 * v.den /\ v.num < 300 * v.den THEN Num(v.num - 200 * v.den, v.den) ELSE v

\* lines 289-291 left out
WithDecimalPoint_Kept(v) == v

\* lines 289-291
WithDecimalPoint(v) == IF v.num >= 100 * v.den THEN Num(v.num, v.den * 10) ELSE v

\* lines 278-291
finalAmount(amount) ==
    IF AmountOfText(amount).t # "num" THEN AmountOfText(amount)
    ELSE WithDecimalPoint(WithoutMisreadRupee(AmountOfText(amount)))

\* /(\d{8}\s*T\s*\d{4}\s*[O0]\s*\d{4})/i
LongIdPattern ==
    <<Cls(Digits, 8, 8), OptWs, LitCI(<<"T">>), OptWs, Cls(Digits, 4, 4), OptWs,
      Cls({"O", "o", "0"}, 1, 1), OptWs, Cls(Digits, 4, 4)>>

\* id.replace(/0(?=\d{4}$)/, 'O'): only the fifth character from the end can
\* be a zero followed by four digits and the end
WithLetterO(id) ==
    IF /\ Len(id) >= 5
       /\ id[Len(id) - 4] = "0"
       /\ \A i \in (Len(id) - 3)..Len(id) : id[i] \in Digits
    THEN [id EXCEPT ![Len(id) - 4] = "O"]
    ELSE id

\* lines 296-297
LongId(text, longIdMatch) ==
    IF longIdMatch.ok THEN WithLetterO(DropAll(MatchText(text, longIdMatch), WhiteSpace))
    ELSE <<>>

\* /(?:Tick[ae]t|Bill|Invoice|तिकीट\s*क्र\.?)\s*(?:N0|No|#|Number)?\s*[:\-]?\s*([A-Z0-9:\-\/.]+)/i
TicketNumberPatternMetro ==
    <<Alt(<<Cat(<<LitCI(<<"T", "i", "c", "k">>), Cls({"a", "e", "A", "E"}, 1, 1), LitCI(<<"t">>)>>),
            LitCI(<<"B", "i", "l", "l">>), LitCI(<<"I", "n", "v", "o", "i", "c", "e">>),
            Cat(<<Lit(<<"U+0924", "U+093F", "U+0915", "U+0940", "U+091F">>), OptWs, Lit(<<"U+0915", "U+094D", "U+0930">>), Opt(Lit(<<".">>))>>)>>),
      OptWs,
      Opt(Alt(<<LitCI(<<"N", "0">>), LitCI(<<"N", "o">>), Lit(<<"#">>), LitCI(<<"N", "u", "m", "b", "e", "r">>)>>)),
      OptWs, Cls({":", "-"}, 0, 1), OptWs,
      Cls(AlphaNum \cup {":", "-", "/", "."}, 1, Unbounded)>>

\* lines 296-303
BillNoOf(text, longId) ==
    IF longId # <<>> THEN Str(longId)
    ELSE Or(MatchGroup(TicketNumberPatternMetro, text, 7), Str(<<>>))

billNo(text) == BillNoOf(text, LongId(text, Search(LongIdPattern, text, 1)))

\* lines 143-314; fromVal and toVal are '' (lines 179-180)
parseWithHeuristicsMetro(text, now) ==
    [billNumber    |-> Or(billNo(text), GeneratedBillNumber(now)),
     amount        |-> finalAmount(amountValMetro(text)),
     date          |-> dateObj(dateVal(text), now),
     from          |-> Or(Str(<<>>), Str(Unknown)),
     to            |-> Or(Str(<<>>), Str(Unknown)),
     extractedText |-> Str(cleanedTextMetro(text)),
     co2Saved      |-> Str(co2Saved(text))]

-----------------------------------------------------------------------------
(* OCRService.parseQRData (both copies hold the same text) and the merge *)

QrSeparators == WhiteSpace \cup {":", "-"}

\* /(?:Bill|Ticket|No)[:\s-]*([A-Z0-9]+)/i
QrBillPattern ==
    <<Alt(<<LitCI(<<"B", "i", "l", "l">>), LitCI(<<"T", "i", "c", "k", "e", "t">>), LitCI(<<"N", "o">>)>>),
      Cls(QrSeparators, 0, Unbounded), Cls(AlphaNum, 1, Unbounded)>>

\* /(?:Fare|Amount|INR|Rs)[:\s-]*(\d+(?:\.\d+)?)/i
QrAmountPattern ==
    <<Alt(<<LitCI(<<"F", "a", "r", "e">>), LitCI(<<"A", "m", "o", "u", "n", "t">>), LitCI(<<"I", "N", "R">>), LitCI(<<"R", "s">>)>>),
      Cls(QrSeparators, 0, Unbounded), DecimalNumber>>

\* /(\d{4}-\d{2}-\d{2}|\d{2}[\/-]\d{2}[\/-]\d{4})/
QrDatePattern ==
    <<Alt(<<Cat(<<Cls(Digits, 4, 4), Lit(<<"-">>), Cls(Digits, 2, 2), Lit(<<"-">>),
                  Cls(Digits, 2, 2)>>),
            Cat(<<Cls(Digits, 2, 2), Cls({"/", "-"}, 1, 1), Cls(Digits, 2, 2),
                  Cls({"/", "-"}, 1, 1), Cls(Digits, 4, 4)>>)>>)>>

\* amountMatch ? parseFloat(amountMatch[1]) : undefined
QrAmountOf(amountMatch) == IF Truthy(amountMatch) THEN ParseFloat(amountMatch.s) ELSE Undefined

\* lines 216-219: new Date(dateMatch[0]), an invalid Date included
QrDateOf(dateMatch, legacy) ==
    IF Truthy(dateMatch) THEN ParseDateString(dateMatch.s, legacy) ELSE Undefined

\* lines 212-225: the three properties are always written, undefined included
QrOfText(rawValue, legacy) ==
    [billNumber |-> MatchGroup(QrBillPattern, rawValue, 3),
     amount     |-> QrAmountOf(MatchGroup(QrAmountPattern, rawValue, 3)),
     date       |-> QrDateOf(MatchGroup(QrDatePattern, rawValue, 1), legacy)]

\* parseFloat(value) of a JSON value: the value is turned into a string first
ParseFloatOf(value) ==
    CASE value.t = "str" -> ParseFloat(value.s)
      [] value.t \in {"num", "big"} -> ParseFloat(NumToString(value))
      [] OTHER -> NaN

\* new Date(value) of a truthy JSON value: text is parsed, a number counts
\* milliseconds (the model's payloads carry no negative or fractional ones)
NewDateOf(value, legacy) ==
    CASE value.t = "str" -> ParseDateString(value.s, legacy)
      [] value.t = "num" -> DateOfDay(0, value.num \div value.den)
      [] value.t = "big" -> MillisDate(KeepOnly(value.s, Digits))
      [] OTHER -> DateOfDay(0, 1)

\* json.date ? new Date(json.date) : undefined
QrJsonDate(value, legacy) == IF Truthy(value) THEN NewDateOf(value, legacy) ELSE Undefined

\* lines 204-208, json an object or a scalar without the properties read
QrOfJson(json, legacy) ==
    [billNumber |-> Or(Or(Prop(json, <<"b", "i", "l", "l", "N", "u", "m", "b", "e", "r">>), Prop(json, <<"b", "i", "l", "l", "N", "o">>)),
                       Prop(json, <<"i", "d">>)),
     amount     |-> ParseFloatOf(Or(Or(Or(Prop(json, <<"a", "m", "o", "u", "n", "t">>), Prop(json, <<"f", "a", "r", "e">>)),
                                       Prop(json, <<"t", "o", "t", "a", "l">>)),
                                    Str(<<"0">>))),
     date       |-> QrJsonDate(Prop(json, <<"d", "a", "t", "e">>), legacy)]

\* lines 200-227: JSON text that is not null goes the first way; a syntax
\* error, or the TypeError of reading a property of null, goes the second
QrDataOf(rawValue, parsedJson, legacy) ==
    IF parsedJson.ok /\ parsedJson.isObject THEN QrOfJson(parsedJson.v, legacy)
    ELSE IF parsedJson.ok /\ parsedJson.v # Null THEN QrOfJson(EmptyObject, legacy)
    ELSE QrOfText(rawValue, legacy)

parseQRData(rawValue, legacy) == QrDataOf(rawValue, JsonParse(rawValue), legacy)

\* the merge with the route taken from the QR candidate alone
finalData_QrRouteOnly(ocrCandidate, qrCandidate) ==
    [k \in DOMAIN Spread(ocrCandidate, qrCandidate) \cup {"from", "to"} |->
        IF k \in {"from", "to"}
        THEN Or(Prop(qrCandidate, k), Str(Unknown))
        ELSE Spread(ocrCandidate, qrCandidate)[k]]

\* lines 183-189: the merge of the object spread with from and to set after it
finalData(ocrCandidate, qrCandidate) ==
    [k \in DOMAIN Spread(ocrCandidate, qrCandidate) \cup {"from", "to"} |->
        IF k = "from"
        THEN Or(Or(ocrCandidate.from, Prop(qrCandidate, "from")), Str(Unknown))
        ELSE IF k = "to"
        THEN Or(Or(ocrCandidate.to, Prop(qrCandidate, "to")), Str(Unknown))
        ELSE Spread(ocrCandidate, qrCandidate)[k]]

\* lines 169-172: the record returned when the recognizer gave no text
QrOnly(qrCandidate, now) ==
    IF HasKeys(qrCandidate)
    THEN Spread(Spread(getMockData(now), qrCandidate), [extractedText |-> Str(<<"Q", "R", " ", "O", "n", "l", "y">>)])
    ELSE getMockData(now)

-----------------------------------------------------------------------------
(* The images the service is given: what the barcode scanner and the text *)
(* recognizer make of each, and the clock                                  *)

NoBarcode == [kind |-> "none", rawValue |-> <<>>]
ScanFails == [kind |-> "throws", rawValue |-> <<>>]
Barcode(rawValue) == [kind |-> "code", rawValue |-> rawValue]

\* the raw values of the QR codes: JSON with the three fields, with an id
\* only, with a date outside the ISO format and a fare that is no number,
\* JSON null, texts with some, all or none of the fields, an empty value
QrRawValues ==
    {<<"{", "\"", "b", "i", "l", "l", "N", "u", "m", "b", "e", "r", "\"", ":", "\"", "Q", "R", "7", "7", "7", "\"", ",", "\"", "a", "m", "o", "u", "n", "t", "\"", ":", "3", "0", ",", "\"", "d", "a", "t", "e", "\"", ":", "\"", "2", "0", "2", "4", "-", "0", "1", "-", "1", "5", "\"", "}">>,
     <<"{", "\"", "i", "d", "\"", ":", "\"", "X", "1", "\"", "}">>,
     <<"{", "\"", "f", "a", "r", "e", "\"", ":", "\"", "f", "r", "e", "e", "\"", ",", "\"", "d", "a", "t", "e", "\"", ":", "\"", "0", "1", "/", "1", "5", "/", "2", "0", "2", "4", "\"", "}">>,
     <<"n", "u", "l", "l">>,
     <<"F", "a", "r", "e", ":", "1", "0", "0">>,
     <<"B", "i", "l", "l", ":", "1", "2", "3", ",", " ", "D", "a", "t", "e", ":", "2", "0", "2", "3", "-", "0", "1", "-", "0", "1", ",", " ", "F", "a", "r", "e", ":", "1", "0", "0">>,
     <<"h", "e", "l", "l", "o">>,
     <<>>}

BarcodeOutcomes == {NoBarcode, ScanFails} \cup {Barcode(rawValue) : rawValue \in QrRawValues}

RecognizerFails == [kind |-> "throws", latin |-> <<>>, devanagari |-> <<>>]
NoRecognition == [kind |-> "null", latin |-> <<>>, devanagari |-> <<>>]
Recognized(latin, devanagari) == [kind |-> "text", latin |-> latin, devanagari |-> devanagari]

\* a ticket with every field, text that is no ticket, a ticket without the CO2
\* line, a short date and station names behind labels
LatinTexts ==
    {<<"J", "O", "U", "R", "N", "E", "Y", " ", "T", "I", "C", "K", "E", "T", "\n", "T", "i", "c", "k", "e", "t", " ", "N", "o", ":", " ", "T", "K", "1", "2", "3", "4", "5", "6", "\n", "V", "A", "N", "A", "Z", "\n", "R", "A", "M", "W", "A", "D", "I", "\n", "1", "5", "/", "0", "1", "/", "2", "0", "2", "4", "\n", "I", "N", "R", " ", "2", "5", ".", "0", "0", "\n", "0", ".", "5", "9", " ", "g", " ", "C", "O", "2">>,
     <<"h", "e", "l", "l", "o", " ", "w", "o", "r", "l", "d">>,
     <<"J", "o", "u", "r", "n", "e", "y", " ", "T", "i", "c", "k", "e", "t", " ", " ", "T", "i", "c", "k", "e", "t", " ", "N", "o", " ", "T", "K", "9", "9", " ", " ", "F", "a", "r", "e", " ", "2", "1", "4", ".", "0">>,
     <<"D", "a", "t", "e", " ", "3", "1", "/", "0", "2", "/", "2", "4", " ", " ", "F", "r", "o", "m", " ", "P", "U", "N", "E", " ", " ", "T", "o", "\n", "P", "C", "M", "C", "\n", "1", "2", ".", "5">>}

\* a ticket in Marathi with misread digits in the CO2 line
DevanagariText == <<"U+0924", "U+093F", "U+0915", "U+0940", "U+091F", " ", "U+0915", "U+094D", "U+0930", ".", " ", "0", "2", "2", "5", "\n", "R", "s", " ", "1", "0", "5", "\n", "o", " ", "S", "9", " ", "U+0917", "U+094D", "U+0930", "U+0947", "U+092E", " ", "C", "0", "2">>

RecognizerOutcomes ==
    {RecognizerFails, NoRecognition, Recognized(<<>>, <<>>), Recognized(<<>>, DevanagariText)}
    \cup {Recognized(text, <<>>) : text \in LatinTexts}
    \cup {Recognized(<<"h", "e", "l", "l", "o", " ", "w", "o", "r", "l", "d">>, DevanagariText)}

\* the amount lines of the generated tickets: amounts around the two
\* corrections of part_002, one read by the decimal fallback, one whose
\* currency word carries a point
AmountLines ==
    {<<"R", "s", " ", "2", "1", "4", ".", "0">>, <<"R", "s", " ", "1", "5", "0">>, <<"R", "s", " ", "4", "5">>, <<"R", "s", " ", "2", "0", "0">>, <<"R", "s", " ", "2", "5", "0">>, <<"R", "s", " ", "2", "9", "9", ".", "5">>, <<"R", "s", " ", "3", "0", "0">>,
     <<"R", "s", " ", "1", "0", "0">>, <<"R", "s", " ", "9", "9", ".", "5">>, <<"R", "s", " ", "9", "9", "9">>, <<"R", "s", " ", "1", "0", "0", "0">>, <<"R", "s", " ", "0">>, <<"F", "a", "r", "e", " ", "1", "2", ".", "5">>, <<"R", "s", ".", " ", "2", "1", "4">>}

\* the CO2 lines of the generated tickets: with and without a decimal point,
\* with misread digits, above and below the ceiling, without a number
Co2Lines ==
    {<<"0", " ", "5", "9", " ", "g", " ", "C", "0", "2">>, <<"1", ".", "0", "2", "g", " ", "C", "O", "2">>, <<"5", "9", " ", "g", " ", "C", "O", "2">>, <<"2", " ", "g", " ", "C", "O", "2">>, <<"2", ".", "5", " ", "g", " ", "C", "O", "2">>, <<"o", " ", "S", "9", " ", "g", "m", " ", "C", "0", "2">>,
     <<"1", " ", "0", " ", "2", " ", "g", " ", "C", "O", "2">>, <<"2", "1", "4", " ", "g", " ", "C", "O", "2">>, <<"0", ".", "5", " ", "g", " ", "C", "O", "2">>, <<"1", " ", "g", " ", "C", "O", "2">>, <<"1", ",", "5", " ", "g", " ", "C", "O", "2">>, <<"0", " ", "g", " ", "C", "O", "2">>,
     <<"1", " ", ".", "5", " ", "g", " ", "C", "O", "2">>, <<"g", " ", "C", "O", "2">>, <<"0", " ", "0", "5", " ", "g", " ", "C", "O", "2">>}

\* a ticket with the CO2 line under the heading and the amount line last
MetroTicket(co2Line, amountLine) ==
    <<"J", "O", "U", "R", "N", "E", "Y", " ", "T", "I", "C", "K", "E", "T", "\n">> \o co2Line \o <<"\n", "T", "i", "c", "k", "e", "t", " ", "N", "o", ":", " ", "T", "K", "1", "2", "3", "4", "5", "6", "\n">> \o amountLine

MetroTickets ==
    {MetroTicket(<<"0", ".", "5", "9", " ", "g", " ", "C", "O", "2">>, amountLine) : amountLine \in AmountLines}
    \cup {MetroTicket(co2Line, <<"R", "s", " ", "4", "5">>) : co2Line \in Co2Lines}

\* the date lines of the generated tickets: a four-digit and a two-digit
\* year, a day the month does not have, a leap day
DateLines == {<<"1", "5", "/", "0", "8", "/", "2", "0", "2", "4">>, <<"1", "2", "/", "0", "1", "/", "2", "4">>, <<"3", "1", "/", "0", "2", "/", "2", "0", "2", "4">>, <<"2", "9", "/", "0", "2", "/", "2", "0", "2", "4">>, <<"5", "-", "1", "3", "-", "2", "0", "2", "4">>}

\* a ticket with a date line under its CO2 line
DatedTickets ==
    {MetroTicket(<<"0", ".", "5", "9", " ", "g", " ", "C", "O", "2", "\n">> \o dateLine, <<"R", "s", " ", "4", "5">>) : dateLine \in DateLines}

NoImage == [uri |-> <<>>, qr |-> NoBarcode, rec |-> NoRecognition]

Images ==
    {NoImage} \cup {[uri |-> <<"/", "c", "a", "c", "h", "e", "/", "p", ".", "j", "p", "g">>, qr |-> qr, rec |-> rec] :
                       qr \in BarcodeOutcomes, rec \in RecognizerOutcomes}
    \cup {[uri |-> <<"/", "t", ".", "j", "p", "g">>, qr |-> NoBarcode, rec |-> Recognized(text, <<>>)] :
              text \in MetroTickets \cup DatedTickets}

\* what Date.now() reads at the call, in milliseconds
ClockReadings == {<<"1", "7", "6", "7", "2", "2", "5", "6", "0", "0", "0", "0", "0">>, <<"1", "7", "6", "7", "2", "2", "5", "6", "0", "0", "0", "0", "1">>}

\* the copies of the service
Copies == {"ErrorBoundary", "part_002"}

ValidationMessage == "This is not a valid Pune Metro Ticket or the Image is not capturing CO2"
RecognizerMessage == "recognizer failed"

-----------------------------------------------------------------------------
(* OCRService.extractTextFromImage, step by step between its awaits *)

NoResult == [kind |-> "none"]
Returned(record) == [kind |-> "returned", v |-> record]
Thrown(message) == [kind |-> "thrown", message |-> message]

\* ErrorBoundary.tsx lines 149-154: the QR candidate a scan leaves in qrData
QrDataOfScan(qr, legacy) ==
    IF qr.kind = "code" /\ qr.rawValue # <<>> THEN parseQRData(qr.rawValue, legacy)
    ELSE EmptyObject

\* the text of the recognition: result.text in ErrorBoundary.tsx (line 175), the
\* non-empty texts of the two scripts joined in part_002 (line 52)
RecognizedText(copy, rec) ==
    IF copy = "ErrorBoundary" THEN rec.latin
    ELSE Join(FilterNonEmpty(<<rec.latin, rec.devanagari>>), <<"\n">>)

\* ocrData: Null when the call ends before parseWithHeuristics
OcrDataOfText(copy, text, now) ==
    IF text = <<>> THEN Null
    ELSE IF copy = "ErrorBoundary" THEN parseWithHeuristics(text, now)
    ELSE IF isValidPuneMetroTicket(text) THEN parseWithHeuristicsMetro(text, now)
    ELSE Null

OcrDataOf(copy, rec, now) ==
    IF rec.kind # "text" THEN Null ELSE OcrDataOfText(copy, RecognizedText(copy, rec), now)

\* part_002 lines 93-99 rethrowing whatever was caught
CaughtMetro_Rethrows(message, now) == Thrown(message)

\* part_002 lines 93-99: the catch of the whole body
CaughtMetro(message, now) ==
    IF message = ValidationMessage THEN Thrown(message) ELSE Returned(getMockData(now))

\* part_002 lines 53-60: the catch around the recognition
RecognitionCaughtMetro(qrCandidate, now) ==
    IF HasKeys(qrCandidate)
    THEN Returned(Spread(Spread(getMockData(now), qrCandidate),
                         [extractedText |-> Str(<<"Q", "R", " ", "O", "n", "l", "y", " ", "(", "O", "C", "R", " ", "F", "a", "i", "l", "e", "d", ")">>)]))
    ELSE CaughtMetro(RecognizerMessage, now)

\* how the call ends once the recognition has settled
OutcomeOfText(copy, text, candidate, qrCandidate, now) ==
    IF text = <<>> THEN Returned(QrOnly(qrCandidate, now))
    ELSE IF candidate = Null THEN CaughtMetro(ValidationMessage, now)
    ELSE Returned(finalData(candidate, qrCandidate))

OutcomeOf(copy, rec, candidate, qrCandidate, now) ==
    IF rec.kind = "throws"
    THEN IF copy = "ErrorBoundary" THEN Returned(getMockData(now))
         ELSE RecognitionCaughtMetro(qrCandidate, now)
    ELSE OutcomeOfText(copy, RecognizedText(copy, rec), candidate, qrCandidate, now)

OCRInit ==
    /\ ocrPc = "idle"
    /\ ocrCopy = "ErrorBoundary"
    /\ ocrImage = NoImage
    /\ ocrLegacy = FALSE
    /\ ocrNow = <<>>
    /\ ocrQr = EmptyObject
    /\ ocrData = Null
    /\ ocrResult = NoResult

\* the call up to its first await: without a URI the mock record is returned;
\* ErrorBoundary.tsx goes on to scan for a QR code, part_002 to the recognition
\* with qrData = {} (its scan is commented out, so it is fed images without a code)
extractTextFromImage(copy, image, legacy, now) ==
    /\ ocrPc = "idle"
    /\ copy = "part_002" => image.qr = NoBarcode
    /\ ocrCopy' = copy
    /\ ocrImage' = image
    /\ ocrLegacy' = legacy
    /\ ocrNow' = now
    /\ ocrQr' = EmptyObject
    /\ ocrData' = Null
    /\ ocrResult' = IF image.uri = <<>> THEN Returned(getMockData(now)) ELSE NoResult
    /\ ocrPc' = IF image.uri = <<>> THEN "done"
                ELSE IF copy = "ErrorBoundary" THEN "scan" ELSE "recognize"
    /\ UNCHANGED <<qrVars, txtVars, authVars, ldVars, camVars>>

\* ErrorBoundary.tsx lines 144-160: the scan settles; a failure is swallowed
BarcodeScanned ==
    /\ ocrPc = "scan"
    /\ ocrQr' = QrDataOfScan(ocrImage.qr, ocrLegacy)
    /\ ocrPc' = "recognize"
    /\ UNCHANGED <<ocrCopy, ocrImage, ocrLegacy, ocrNow, ocrData, ocrResult>>
    /\ UNCHANGED <<qrVars, txtVars, authVars, ldVars, camVars>>

\* the recognition settles and the call runs to its end
TextRecognized ==
    /\ ocrPc = "recognize"
    /\ \E candidate \in {OcrDataOf(ocrCopy, ocrImage.rec, ocrNow)} :
           /\ ocrData' = candidate
           /\ ocrResult' = OutcomeOf(ocrCopy, ocrImage.rec, candidate, ocrQr, ocrNow)
    /\ ocrPc' = "done"
    /\ UNCHANGED <<ocrCopy, ocrImage, ocrLegacy, ocrNow, ocrQr>>
    /\ UNCHANGED <<qrVars, txtVars, authVars, ldVars, camVars>>

\* the caller has the record or the exception; the locals of the call end
Settled ==
    /\ ocrPc = "done"
    /\ ocrPc' = "idle"
    /\ ocrCopy' = "ErrorBoundary"
    /\ ocrImage' = NoImage
    /\ ocrLegacy' = FALSE
    /\ ocrNow' = <<>>
    /\ ocrQr' = EmptyObject
    /\ ocrData' = Null
    /\ ocrResult' = NoResult
    /\ UNCHANGED <<qrVars, txtVars, authVars, ldVars, camVars>>

OCRNext ==
    \/ \E copy \in Copies : \E image \in Images : \E legacy \in BOOLEAN :
           \E now \in ClockReadings : extractTextFromImage(copy, image, legacy, now)
    \/ BarcodeScanned
    \/ TextRecognized
    \/ Settled

-----------------------------------------------------------------------------
(* The text stage of the on-device copy: components/ErrorBoundary.tsx,
   lines 689-802 *)

\* s.replace(/[class]{min,}/g, rep): every maximal run of at least min
\* characters of the class becomes rep
RECURSIVE ReplaceRuns(_, _, _, _)
ReplaceRuns(s, class, min, rep) ==
    IF s = <<>> THEN <<>>
    ELSE IF RunLen(s, 1, class) >= min
         THEN rep \o ReplaceRuns(Drop(s, RunLen(s, 1, class) + 1), class, min, rep)
    ELSE <<s[1]>> \o ReplaceRuns(Drop(s, 2), class, min, rep)

\* s.replace(/[^class]+/g, rep)
RECURSIVE ReplaceRunsNot(_, _, _)
ReplaceRunsNot(s, class, rep) ==
    IF s = <<>> THEN <<>>
    ELSE IF RunLenNot(s, 1, class) >= 1
         THEN rep \o ReplaceRunsNot(Drop(s, RunLenNot(s, 1, class) + 1), class, rep)
    ELSE <<s[1]>> \o ReplaceRunsNot(Drop(s, 2), class, rep)

\* s.replace(/from/g, to) for a literal text
RECURSIVE ReplaceLit(_, _, _)
ReplaceLit(s, from, to) ==
    IF s = <<>> THEN <<>>
    ELSE IF MatchAt(s, from, 1)
         THEN to \o ReplaceLit(Drop(s, Len(from) + 1), from, to)
    ELSE <<s[1]>> \o ReplaceLit(Drop(s, 2), from, to)

\* line 786: .replace(/–|—/g, '-')
DashesToHyphen(s) ==
    [i \in DOMAIN s |-> IF s[i] \in {"U+2013", "U+2014"} THEN "-" ELSE s[i]]

\* line 788: .replace(/\n\s+/g, '\n')
RECURSIVE DropAfterNewline(_)
DropAfterNewline(s) ==
    IF s = <<>> THEN <<>>
    ELSE IF s[1] = "\n" /\ RunLen(s, 2, WhiteSpace) >= 1
         THEN <<"\n">> \o DropAfterNewline(Drop(s, 2 + RunLen(s, 2, WhiteSpace)))
    ELSE <<s[1]>> \o DropAfterNewline(Drop(s, 2))

\* lines 781-790: OCRService.normalizeText
normalizeText(text) ==
    Trim(DropAfterNewline(
        ReplaceRuns(
            DashesToHyphen(
                ReplaceRuns(
                    ReplaceRuns(ReplaceLit(text, <<"\r", "\n">>, <<"\n">>),
                                {"|"}, 1, <<" ">>),
                    {";"}, 1, <<":">>)),
            {" ", "\t"}, 2, <<" ">>)))

\* lines 792-802: OCRService.normalizeKey
normalizeKey(key) ==
    Trim(ReplaceRuns(
        ReplaceLit(
            ReplaceLit(
                ReplaceLit(
                    ReplaceLit(
                        ReplaceRunsNot(ToLowerCase(key), Lower \cup Digits \cup {" "}, <<" ">>),
                        <<"t", "l", "c", "k", "a", "t">>, <<"t", "i", "c", "k", "e", "t">>),
                    <<"j", "o", "u", "r", "n", "a", "y">>, <<"j", "o", "u", "r", "n", "e", "y">>),
                <<"v", "a", "l", "l", "d">>, <<"v", "a", "l", "i", "d">>),
            <<"p", "l", "a", "t", "f", "a", "r", "m">>, <<"p", "l", "a", "t", "f", "o", "r", "m">>),
        WhiteSpace, 1, <<" ">>))

\* lines 711-714: text.split(/\r?\n/).map(line => line.trim()).filter(Boolean);
\* the carriage return the separator may take is one trim() would take
FieldLines(text) == FilterNonEmpty(TrimAll(Split(text, "\n")))

\* line 719: rawLine.replace(/\s+/g, ' ').trim()
CollapsedLine(rawLine) == Trim(ReplaceRuns(rawLine, WhiteSpace, 1, <<" ">>))

\* line 724: /^([A-Za-z0-9 .]{2,})\s*[:\-]\s*(.+)$/
KvPattern ==
    <<Bos, Cls(AlphaNum \cup {" ", "."}, 2, Unbounded), Cls(WhiteSpace, 0, Unbounded),
      Cls({":", "-"}, 1, 1), Cls(WhiteSpace, 0, Unbounded),
      NotCls({"\n", "\r"}, 1, Unbounded), Eos>>

KvMatch(line) == PathFrom(KvPattern, 1, line, 1)

\* Map.prototype.set
MapSet(map, key, value) ==
    [k \in DOMAIN map \cup {key} |-> IF k = key THEN value ELSE map[k]]

\* lines 725-733: a line of the form "key: value"
KvLineStep(line, m, map) ==
    [map     |-> IF normalizeKey(Group(line, m, 2)) # <<>>
                 THEN MapSet(map, normalizeKey(Group(line, m, 2)), Trim(Group(line, m, 6)))
                 ELSE map,
     pending |-> Null]

\* lines 736-737: map.get(pendingKey) ?? '' and the template `${existing} ${line}`
AttachedValue(map, key, line) ==
    Trim((IF key \in DOMAIN map THEN map[key] ELSE <<>>) \o <<" ">> \o line)

\* lines 735-740: the line after a pending label
PendingLineStep(line, map, pendingKey) ==
    [map     |-> MapSet(map, pendingKey.s, AttachedValue(map, pendingKey.s, line)),
     pending |-> Null]

\* line 742: line.endsWith(':')
EndsWithLabelMark(line) == line # <<>> /\ line[Len(line)] = ":"

\* lines 742-745: a line that ends a label: normalizedKey || null
LabelLineStep(line, map, pendingKey) ==
    [map     |-> map,
     pending |-> IF EndsWithLabelMark(line)
                 THEN IF normalizeKey(SubSeq(line, 1, Len(line) - 1)) # <<>>
                      THEN Str(normalizeKey(SubSeq(line, 1, Len(line) - 1)))
                      ELSE Null
                 ELSE pendingKey]

\* lines 718-746: one pass of the loop body over an already collapsed line
FieldMapStep(line, map, pendingKey) ==
    IF line = <<>> THEN [map |-> map, pending |-> pendingKey]
    ELSE IF KvMatch(line).ok THEN KvLineStep(line, KvMatch(line), map)
    ELSE IF pendingKey # Null THEN PendingLineStep(line, map, pendingKey)
    ELSE LabelLineStep(line, map, pendingKey)

\* lines 709-749: OCRService.buildFieldMap, the loop from line i on
RECURSIVE FieldMapFrom(_, _, _, _)
FieldMapFrom(lines, i, map, pendingKey) ==
    IF i > Len(lines) THEN map
    ELSE FieldMapFrom(lines, i + 1,
                      FieldMapStep(CollapsedLine(lines[i]), map, pendingKey).map,
                      FieldMapStep(CollapsedLine(lines[i]), map, pendingKey).pending)

buildFieldMap(text) == FieldMapFrom(FieldLines(text), 1, <<>>, Null)

\* the texts the recognizer hands to the text stage
TextInputs ==
    {<<"D", "a", "t", "e", ":", "\n", "1", "2", "/", "0", "1", "/", "2", "0", "2", "4">>,
     <<"D", "a", "t", "e", ":", "\n", "F", "r", "o", "m", ":", "\n", "P", "u", "n", "e">>,
     <<"T", "i", "c", "k", "e", "t", " ", "N", "o", ":", " ", "T", "K", "1", "\n", "T", "i", "c", "k", "e", "t", " ", "N", "o", ":", "\n", "A", "B", " ", "2">>,
     <<"F", "a", "r", "e", " ", "-", "\n", "4", "0">>,
     <<"a", "\r", "\r", "\n", "b">>,
     <<" ", "D", "a", "t", "e", ";", " ", " ", "1", "2", "/", "0", "1", "/", "2", "0", "2", "4", " ", "|", "\n", "\t", " ", "F", "r", "o", "m", " ", "U+2013", " ", "P", "u", "n", "e", "\r", "\n", "\n", "T", "o", ":", "\n", " ", " ", "S", "w", "a", "r", "g", "a", "t", "e", " ">>,
     <<"F", "r", "o", "m", ":", " ", "P", "u", "n", "e", "\n", "T", "o", ":", " ", "S", "w", "a", "r", "g", "a", "t", "e", "\n", "F", "a", "r", "e", ":", " ", "R", "s", " ", "4", "0">>,
     <<"T", "i", "c", "k", "e", "t", " ", "N", "o", ":", " ", "T", "K", "1", "2", "3", "4", "5", "6", "\n", "A", "m", "o", "u", "n", "t", ":", " ", "4", "5", ".", "5", "0">>,
     <<"h", "e", "l", "l", "o", " ", "w", "o", "r", "l", "d">>,
     <<>>,
     <<"D", "a", "t", "e", ":", "\n", "1", "2", "/", "0", "1", "/", "2", "0", "2", "4", "\n", "1", "3", "/", "0", "1", "/", "2", "0", "2", "4">>,
     <<"T", "o", ":", "\n", "S", "w", "a", "r", "g", "a", "t", "e", "\n", "F", "r", "o", "m", " ", "-", " ", "V", "a", "n", "a", "z">>,
     <<"B", "i", "l", "l", "|", "N", "o", ";", ";", "A", "B", "1", "2", "3", "4", "5", "6", "\n", "T", "o", "t", "a", "l", ":", "\t", "\t", "9", "9">>,
     <<"N", "a", "m", "e", ":", "\n", "D", "a", "t", "e", ":", " ", "1", "/", "2", "/", "2", "4">>,
     <<"x", "\r", "\n", "y", "\r", "z">>,
     <<"T", "l", "c", "k", "a", "t", " ", "N", "o", ":", " ", "1", "2", "3", "4", "5", "6", "7", "8">>,
     <<"J", "o", "u", "r", "n", "a", "y", " ", "D", "a", "t", "e", " ", "U+2014", " ", "0", "1", "-", "0", "2", "-", "2", "0", "2", "4">>,
     <<"P", "l", "a", "t", "f", "a", "r", "m", ":", "\n", "2">>,
     <<"V", "a", "l", "l", "d", ":", "\n", "\n", " ", " ", "1", "2", "/", "1", "2", "/", "2", "0", "2", "4">>,
     <<"F", "r", "o", "m", ":", "\n", "\n", "P", "u", "n", "e", "\n", "\n", "\n", "T", "o", ":", "\n", "P", "C", "M", "C">>,
     <<"I", "N", "R", " ", "2", "5", "0", "\n", "R", "E", "C", "E", "I", "P", "T", " ", "9", "9", "8", "8", "7", "7", "6", "6">>,
     <<"T", "o", "t", "a", "l", " ", ";", "\n", "1", "2", "0">>,
     <<"D", "a", "t", "e", " ", "|", ":", " ", "3", "/", "4", "/", "2", "0", "2", "4">>,
     <<"F", "a", "r", "e", ":", "\n", "R", "s", " ", "4", "0", "\n", "F", "a", "r", "e", ":", " ", "5", "0">>,
     <<"F", "r", "o", "m", ":", "\n", "T", "o", ":", "\n", "P", "u", "n", "e", "\n", "S", "w", "a", "r", "g", "a", "t", "e">>,
     <<"\t", "\n", " ", "\r", "\n">>,
     <<"A", ":", "\n", "v", "a", "l", "u", "e">>,
     <<"F", "a", "r", "e", ":", " ", "4", "0", "\n", "F", "a", "r", "e", " ", "-", "\n", "4", "5", "\n", "P", "a", "i", "d">>}

TxtInit ==
    /\ txtPc = "idle"
    /\ txtIn = <<>>
    /\ txtNorm = <<>>
    /\ txtLines = <<>>
    /\ txtIdx = 1
    /\ txtMap = <<>>
    /\ txtPending = Null

\* lines 689-691 and 710-716: fallbackExtraction normalizes the text and
\* buildFieldMap splits it into lines
NormalizeInput(text) ==
    /\ txtPc = "idle"
    /\ txtPc' = "lines"
    /\ txtIn' = text
    /\ txtNorm' = normalizeText(text)
    /\ txtLines' = FieldLines(normalizeText(text))
    /\ txtIdx' = 1
    /\ txtMap' = <<>>
    /\ txtPending' = Null
    /\ UNCHANGED <<qrVars, ocrVars, authVars, ldVars, camVars>>

\* lines 718-746: the loop body for the next line
FieldMapLine ==
    /\ txtPc = "lines"
    /\ txtIdx <= Len(txtLines)
    /\ \E step \in {FieldMapStep(CollapsedLine(txtLines[txtIdx]), txtMap, txtPending)} :
           /\ txtMap' = step.map
           /\ txtPending' = step.pending
    /\ txtIdx' = txtIdx + 1
    /\ UNCHANGED <<txtPc, txtIn, txtNorm, txtLines>>
    /\ UNCHANGED <<qrVars, ocrVars, authVars, ldVars, camVars>>

\* line 748: return map
FieldMapReturn ==
    /\ txtPc = "lines"
    /\ txtIdx > Len(txtLines)
    /\ txtPc' = "mapped"
    /\ UNCHANGED <<txtIn, txtNorm, txtLines, txtIdx, txtMap, txtPending>>
    /\ UNCHANGED <<qrVars, ocrVars, authVars, ldVars, camVars>>

\* the call is over; the service keeps nothing of it
TextSettled ==
    /\ txtPc = "mapped"
    /\ txtPc' = "idle"
    /\ txtIn' = <<>>
    /\ txtNorm' = <<>>
    /\ txtLines' = <<>>
    /\ txtIdx' = 1
    /\ txtMap' = <<>>
    /\ txtPending' = Null
    /\ UNCHANGED <<qrVars, ocrVars, authVars, ldVars, camVars>>

TextNext ==
    \/ \E text \in TextInputs : NormalizeInput(text)
    \/ FieldMapLine
    \/ FieldMapReturn
    \/ TextSettled

-----------------------------------------------------------------------------
(* AuthService (services/auth.ts) and AuthProvider (screens/ProfileScreen.tsx,
   lines 272-314): each operation step by step between its awaits.  authHist
   is a record of what has happened, kept to state properties; the program
   does not hold it. *)

\* what the login screen may pass
PhoneNumbers == {<<"+", "9", "1", " ", "9", "8">>, <<"9", "1", "9", "8">>}

Otps == {<<"1", "2", "3", "4", "5", "6">>, <<"0", "0", "0", "0", "0", "0">>, <<"1", "2", "3", "4", "5">>}

\* auth.ts line 20: otp === '123456' accepting every code
OtpAccepted_Any(otp) == TRUE

\* auth.ts line 20: otp === '123456'
OtpAccepted(otp) == otp = <<"1", "2", "3", "4", "5", "6">>

\* auth.ts lines 46 and 71: phoneNumber.replace(/[^0-9]/g, '')
UserIdOf(phoneNumber) == ReplaceRunsNot(phoneNumber, Digits, <<>>)

\* auth.ts lines 47-52: name and photoUrl are not passed by AuthProvider.login
NewUserDoc(phoneNumber, now) ==
    [phoneNumber |-> phoneNumber, name |-> <<>>, photoUrl |-> <<>>,
     createdAt |-> DateOfClock(now)]

\* auth.ts lines 36-42 and 56-59: the user of a document
UserOfDoc(id, userDoc) ==
    [id |-> id, phoneNumber |-> userDoc.phoneNumber, name |-> userDoc.name,
     photoUrl |-> userDoc.photoUrl, createdAt |-> userDoc.createdAt]

\* auth.ts lines 70-74
FallbackUser(phoneNumber, now) ==
    [id |-> UserIdOf(phoneNumber), phoneNumber |-> phoneNumber,
     createdAt |-> DateOfClock(now)]

\* auth.ts lines 23-28: the documents whose phoneNumber is the given one
DocsOf(db, phoneNumber) == {id \in DOMAIN db : db[id].phoneNumber = phoneNumber}

\* auth.ts line 64: JSON.stringify(user); the Date becomes its ISO text, kept
\* here as the date it spells
JsonOfUser(user) ==
    [k \in DOMAIN user |->
        IF k = "createdAt" THEN [t |-> "isostr", date |-> user[k]] ELSE user[k]]

\* auth.ts lines 87-94: JSON.parse and the Date of a createdAt text
UserOfJson(json) ==
    [k \in DOMAIN json |->
        IF k = "createdAt" /\ json[k].t = "isostr" THEN json[k].date ELSE json[k]]

\* auth.ts lines 82-99: AuthService.getCurrentUser
getCurrentUser(stored) == IF stored = Null THEN Null ELSE UserOfJson(stored)

NoLogin == [pc |-> "idle", phoneNumber |-> <<>>, otp |-> <<>>, user |-> Null, ret |-> "none"]

NoHistory == [login |-> Null, restored |-> Null]

AuthInit ==
    /\ authUser = Null
    /\ authStored = Null
    /\ authDb = <<>>
    /\ authLogin = NoLogin
    /\ authLogout = "idle"
    /\ authCheck = "read"
    /\ authLog = <<>>
    /\ authHist = NoHistory

\* ProfileScreen.tsx lines 276-289: the effect of mounting, checkUser
CheckUser ==
    /\ authCheck = "read"
    /\ authCheck' = "done"
    /\ authUser' = getCurrentUser(authStored)
    /\ authHist' = [authHist EXCEPT !.restored = getCurrentUser(authStored)]
    /\ UNCHANGED <<authStored, authDb, authLogin, authLogout, authLog>>
    /\ UNCHANGED <<qrVars, ocrVars, txtVars, ldVars, camVars>>

\* ProfileScreen.tsx lines 291-293 and auth.ts lines 12-16: sendOTP
SendOTP(phoneNumber) ==
    /\ authLog' = phoneNumber
    /\ UNCHANGED <<authUser, authStored, authDb, authLogin, authLogout, authCheck, authHist>>
    /\ UNCHANGED <<qrVars, ocrVars, txtVars, ldVars, camVars>>

\* ProfileScreen.tsx lines 295-302 and auth.ts lines 18-28, 79: login up to
\* the first await of verifyOTP; a code that is not accepted ends the call
Login(phoneNumber, otp) ==
    /\ authLogin.pc = "idle"
    /\ authLogin' = IF OtpAccepted(otp)
                    THEN [pc |-> "query", phoneNumber |-> phoneNumber, otp |-> otp,
                          user |-> Null, ret |-> "none"]
                    ELSE [pc |-> "idle", phoneNumber |-> phoneNumber, otp |-> otp,
                          user |-> Null, ret |-> "false"]
    /\ UNCHANGED <<authUser, authStored, authDb, authLogout, authCheck, authLog, authHist>>
    /\ UNCHANGED <<qrVars, ocrVars, txtVars, ldVars, camVars>>

\* auth.ts lines 28-42: getDocs answers with the document of the number
QueryFindsUser ==
    /\ authLogin.pc = "query"
    /\ DocsOf(authDb, authLogin.phoneNumber) # {}
    /\ \E id \in DocsOf(authDb, authLogin.phoneNumber) :
           authLogin' = [authLogin EXCEPT !.pc = "save", !.user = UserOfDoc(id, authDb[id])]
    /\ UNCHANGED <<authUser, authStored, authDb, authLogout, authCheck, authLog, authHist>>
    /\ UNCHANGED <<qrVars, ocrVars, txtVars, ldVars, camVars>>

\* auth.ts lines 44-54: getDocs answers with nothing; doc() of an empty id
\* throws and is caught at line 66
QueryFindsNone(now) ==
    /\ authLogin.pc = "query"
    /\ DocsOf(authDb, authLogin.phoneNumber) = {}
    /\ authLogin' = IF UserIdOf(authLogin.phoneNumber) = <<>>
                    THEN [authLogin EXCEPT !.pc = "save",
                                           !.user = FallbackUser(authLogin.phoneNumber, now)]
                    ELSE [authLogin EXCEPT !.pc = "create",
                                           !.user = UserOfDoc(UserIdOf(authLogin.phoneNumber),
                                                              NewUserDoc(authLogin.phoneNumber, now))]
    /\ UNCHANGED <<authUser, authStored, authDb, authLogout, authCheck, authLog, authHist>>
    /\ UNCHANGED <<qrVars, ocrVars, txtVars, ldVars, camVars>>

\* auth.ts lines 54-59: setDoc has written the new document
CreateUser ==
    /\ authLogin.pc = "create"
    /\ authDb' = MapSet(authDb, authLogin.user.id,
                        [k \in DOMAIN authLogin.user \ {"id"} |-> authLogin.user[k]])
    /\ authLogin' = [authLogin EXCEPT !.pc = "save"]
    /\ UNCHANGED <<authUser, authStored, authLogout, authCheck, authLog, authHist>>
    /\ UNCHANGED <<qrVars, ocrVars, txtVars, ldVars, camVars>>

\* auth.ts lines 66-75: getDocs or setDoc rejects and the catch makes a
\* local-only user
FirestoreFails(now) ==
    /\ authLogin.pc \in {"query", "create"}
    /\ authLogin' = [authLogin EXCEPT !.pc = "save",
                                      !.user = FallbackUser(authLogin.phoneNumber, now)]
    /\ UNCHANGED <<authUser, authStored, authDb, authLogout, authCheck, authLog, authHist>>
    /\ UNCHANGED <<qrVars, ocrVars, txtVars, ldVars, camVars>>

\* auth.ts lines 64-65, 75-76 and ProfileScreen.tsx lines 297-300: setItem
\* has stored the user, verifyOTP returns it, login sets it and returns true
SaveUser ==
    /\ authLogin.pc = "save"
    /\ authStored' = JsonOfUser(authLogin.user)
    /\ authUser' = authLogin.user
    /\ authLogin' = [authLogin EXCEPT !.pc = "idle", !.ret = "true"]
    /\ authHist' = [authHist EXCEPT !.login = [otp |-> authLogin.otp, user |-> authLogin.user]]
    /\ UNCHANGED <<authDb, authLogout, authCheck, authLog>>
    /\ UNCHANGED <<qrVars, ocrVars, txtVars, ldVars, camVars>>

\* ProfileScreen.tsx lines 304-305: logout up to its await
Logout ==
    /\ authLogout = "idle"
    /\ authLogout' = "remove"
    /\ UNCHANGED <<authUser, authStored, authDb, authLogin, authCheck, authLog, authHist>>
    /\ UNCHANGED <<qrVars, ocrVars, txtVars, ldVars, camVars>>

\* auth.ts lines 101-104 and ProfileScreen.tsx line 306: removeItem is done
\* and the user is set to null
LoggedOut ==
    /\ authLogout = "remove"
    /\ authLogout' = "idle"
    /\ authStored' = Null
    /\ authUser' = Null
    /\ UNCHANGED <<authDb, authLogin, authCheck, authLog, authHist>>
    /\ UNCHANGED <<qrVars, ocrVars, txtVars, ldVars, camVars>>

\* the app is closed and opened again: AsyncStorage and Firestore keep their
\* content, the provider is mounted anew (ProfileScreen.tsx lines 273-278)
Relaunch ==
    /\ authCheck = "done"
    /\ authUser' = Null
    /\ authLogin' = NoLogin
    /\ authLogout' = "idle"
    /\ authCheck' = "read"
    /\ authLog' = <<>>
    /\ authHist' = NoHistory
    /\ UNCHANGED <<authStored, authDb>>
    /\ UNCHANGED <<qrVars, ocrVars, txtVars, ldVars, camVars>>

AuthNext ==
    \/ CheckUser
    \/ \E phoneNumber \in PhoneNumbers : SendOTP(phoneNumber)
    \/ \E phoneNumber \in PhoneNumbers : \E otp \in Otps : Login(phoneNumber, otp)
    \/ QueryFindsUser
    \/ \E now \in ClockReadings : QueryFindsNone(now)
    \/ CreateUser
    \/ \E now \in ClockReadings : FirestoreFails(now)
    \/ SaveUser
    \/ Logout
    \/ LoggedOut
    \/ Relaunch

-----------------------------------------------------------------------------
(* The model loader of the on-device copy: components/ErrorBoundary.tsx,
   lines 557-611.  Calls of extractTextFromImage run side by side, each
   step by step between its awaits; the loads are numbered in the order
   they are started and loadPromise holds the number of a load, 0 for null.
   What a call has seen at its arrival is kept with the call to state
   properties; the program does not hold it. *)

\* the calls that may be under way at once, and the loads followed
LoadCallers == 1..3

MaxLoads == 3

ImageUris == {<<>>, <<"f", "i", "l", "e", ":", "/", "/", "/", "p", ".", "j", "p", "g">>}

ForwardOutcomes == {"text", "empty", "throws"}

\* the loads that are neither fulfilled nor rejected
InFlight(loads) == {id \in DOMAIN loads : loads[id] = "pending"}

\* line 597 starting a load at every call
NeedsLoad_Always(promise) == TRUE

\* line 597: !loadPromise
NeedsLoad(promise) == promise = 0

NoCall == [pc |-> "idle", waits |-> 0, seen |-> {}, result |-> "none"]

LoadInit ==
    /\ ldModule = FALSE
    /\ ldPromise = 0
    /\ ldLoads = <<>>
    /\ ldCalls = [c \in LoadCallers |-> NoCall]

\* lines 565-568: a call without an image URI returns the placeholder record
CallWithoutUri(c) ==
    /\ ldCalls[c].pc = "idle"
    /\ ldCalls' = [ldCalls EXCEPT ![c] = [pc |-> "done", waits |-> 0,
                                          seen |-> InFlight(ldLoads), result |-> "mock"]]
    /\ UNCHANGED <<ldModule, ldPromise, ldLoads>>
    /\ UNCHANGED <<qrVars, ocrVars, txtVars, authVars, camVars>>

\* lines 570-572 and 592-609: a call with an image URI runs
\* ensureModuleLoaded up to `await loadPromise`
CallWithUri(c) ==
    /\ ldCalls[c].pc = "idle"
    /\ NeedsLoad(ldPromise) => Len(ldLoads) < MaxLoads
    /\ ldModule' = TRUE
    /\ ldLoads' = IF NeedsLoad(ldPromise) THEN Append(ldLoads, "pending") ELSE ldLoads
    /\ ldPromise' = IF NeedsLoad(ldPromise) THEN Len(ldLoads) + 1 ELSE ldPromise
    /\ ldCalls' = [ldCalls EXCEPT ![c] = [pc |-> "waiting", waits |-> ldPromise',
                                          seen |-> InFlight(ldLoads), result |-> "none"]]
    /\ UNCHANGED <<qrVars, ocrVars, txtVars, authVars, camVars>>

\* lines 564-572: OCRService.extractTextFromImage is called
ExtractCalled(c, imageUri) ==
    IF imageUri = <<>> THEN CallWithoutUri(c) ELSE CallWithUri(c)

\* lines 598-602: the load is fulfilled
LoadSucceeds(id) ==
    /\ id \in InFlight(ldLoads)
    /\ ldLoads' = [ldLoads EXCEPT ![id] = "ok"]
    /\ UNCHANGED <<ldModule, ldPromise, ldCalls>>
    /\ UNCHANGED <<qrVars, ocrVars, txtVars, authVars, camVars>>

\* lines 603-606: the load is rejected; the handler sets loadPromise to null
\* and throws the error on
LoadFails(id) ==
    /\ id \in InFlight(ldLoads)
    /\ ldLoads' = [ldLoads EXCEPT ![id] = "failed"]
    /\ ldPromise' = 0
    /\ UNCHANGED <<ldModule, ldCalls>>
    /\ UNCHANGED <<qrVars, ocrVars, txtVars, authVars, camVars>>

\* lines 609-610 and 571-572, 585-589: `await loadPromise` is over; a
\* rejected load takes the call to its catch, which returns the placeholder
LoadAwaited(c) ==
    /\ ldCalls[c].pc = "waiting"
    /\ ldLoads[ldCalls[c].waits] # "pending"
    /\ ldCalls' = [ldCalls EXCEPT ![c] =
                      IF ldLoads[ldCalls[c].waits] = "ok"
                      THEN [@ EXCEPT !.pc = "forward"]
                      ELSE [@ EXCEPT !.pc = "done", !.result = "mock"]]
    /\ UNCHANGED <<ldModule, ldPromise, ldLoads>>
    /\ UNCHANGED <<qrVars, ocrVars, txtVars, authVars, camVars>>

\* lines 572-589: the image is prepared and recognized; text goes to
\* fallbackExtraction, no text and any error give the placeholder
Forwarded(c, outcome) ==
    /\ ldCalls[c].pc = "forward"
    /\ ldCalls' = [ldCalls EXCEPT ![c] =
                      [@ EXCEPT !.pc = "done",
                                !.result = IF outcome = "text" THEN "extracted" ELSE "mock"]]
    /\ UNCHANGED <<ldModule, ldPromise, ldLoads>>
    /\ UNCHANGED <<qrVars, ocrVars, txtVars, authVars, camVars>>

\* the caller has the record; the call is over
CallSettled(c) ==
    /\ ldCalls[c].pc = "done"
    /\ ldCalls' = [ldCalls EXCEPT ![c] = NoCall]
    /\ UNCHANGED <<ldModule, ldPromise, ldLoads>>
    /\ UNCHANGED <<qrVars, ocrVars, txtVars, authVars, camVars>>

LoadNext ==
    \/ \E c \in LoadCallers : \E imageUri \in ImageUris : ExtractCalled(c, imageUri)
    \/ \E id \in 1..MaxLoads : LoadSucceeds(id)
    \/ \E id \in 1..MaxLoads : LoadFails(id)
    \/ \E c \in LoadCallers : LoadAwaited(c)
    \/ \E c \in LoadCallers : \E outcome \in ForwardOutcomes : Forwarded(c, outcome)
    \/ \E c \in LoadCallers : CallSettled(c)

-----------------------------------------------------------------------------
(* The capture screen: CameraScreen (src/unnamed/part_006), lines 20-244.
   The images are numbered in the order they are taken; image, the state
   of the screen, holds the number of an image, 0 for null.  The record
   in extractedData is kept with the number of the image it was read from
   to state properties; the program holds the record alone.  The handlers
   run step by step between their awaits, side by side with the timers,
   the runs of processImage and the presses of the buttons. *)

MaxImages == 3

MaxSaves == 2

TakenImages == 1..MaxImages

NoData == [of |-> 0, billNumber |-> FALSE]

CamInit ==
    /\ camImage = 0
    /\ camProcessing = FALSE
    /\ camData = NoData
    /\ camPicker = "idle"
    /\ camTaken = 0
    /\ camCompress = {}
    /\ camTimers = {}
    /\ camRuns = {}
    /\ camSaves = <<>>

\* lines 175-183 and 26-36, 68-78: the Take Photo and Choose from Gallery
\* buttons are shown without an image; the press opens the picker
PickerOpened(kind) ==
    /\ camImage = 0
    /\ camPicker = "idle"
    /\ camTaken < MaxImages
    /\ camPicker' = kind
    /\ UNCHANGED <<camImage, camProcessing, camData, camTaken, camCompress,
                   camTimers, camRuns, camSaves>>
    /\ UNCHANGED <<qrVars, ocrVars, txtVars, authVars, ldVars>>

\* lines 60-65, 99-104: the picker is cancelled or fails
PickerClosed ==
    /\ camPicker # "idle"
    /\ camPicker' = "idle"
    /\ UNCHANGED <<camImage, camProcessing, camData, camTaken, camCompress,
                   camTimers, camRuns, camSaves>>
    /\ UNCHANGED <<qrVars, ocrVars, txtVars, authVars, ldVars>>

\* lines 38-49, 80-88: the picker returns an image, which is given to
\* ImageCompressor.compressImage
PickerReturns ==
    /\ camPicker # "idle"
    /\ camPicker' = "idle"
    /\ camTaken' = camTaken + 1
    /\ camCompress' = camCompress \cup {camTaken + 1}
    /\ UNCHANGED <<camImage, camProcessing, camData, camTimers, camRuns, camSaves>>
    /\ UNCHANGED <<qrVars, ocrVars, txtVars, authVars, ldVars>>

\* lines 50-54, 89-93: setImage(compressedUri) and
\* setTimeout(() => processImage(compressedUri), 500)
Compressed(id) ==
    /\ id \in camCompress
    /\ camCompress' = camCompress \ {id}
    /\ camImage' = id
    /\ camTimers' = camTimers \cup {id}
    /\ UNCHANGED <<camProcessing, camData, camPicker, camTaken, camRuns, camSaves>>
    /\ UNCHANGED <<qrVars, ocrVars, txtVars, authVars, ldVars>>

\* lines 55-58, 94-97: the compression fails
CompressFails(id) ==
    /\ id \in camCompress
    /\ camCompress' = camCompress \ {id}
    /\ UNCHANGED <<camImage, camProcessing, camData, camPicker, camTaken,
                   camTimers, camRuns, camSaves>>
    /\ UNCHANGED <<qrVars, ocrVars, txtVars, authVars, ldVars>>

\* lines 54, 93 and 107-111: the timer runs processImage up to its await
ProcessImage(id) ==
    /\ id \in camTimers
    /\ camTimers' = camTimers \ {id}
    /\ camProcessing' = TRUE
    /\ camRuns' = camRuns \cup {id}
    /\ UNCHANGED <<camImage, camData, camPicker, camTaken, camCompress, camSaves>>
    /\ UNCHANGED <<qrVars, ocrVars, txtVars, authVars, ldVars>>

\* lines 111-112, 116-118: the record of the image arrives
Extracted(id, hasBillNumber) ==
    /\ id \in camRuns
    /\ camRuns' = camRuns \ {id}
    /\ camData' = [of |-> id, billNumber |-> hasBillNumber]
    /\ camProcessing' = FALSE
    /\ UNCHANGED <<camImage, camPicker, camTaken, camCompress, camTimers, camSaves>>
    /\ UNCHANGED <<qrVars, ocrVars, txtVars, authVars, ldVars>>

\* lines 113-118: the extraction throws
ExtractionFails(id) ==
    /\ id \in camRuns
    /\ camRuns' = camRuns \ {id}
    /\ camProcessing' = FALSE
    /\ UNCHANGED <<camImage, camData, camPicker, camTaken, camCompress,
                   camTimers, camSaves>>
    /\ UNCHANGED <<qrVars, ocrVars, txtVars, authVars, ldVars>>

\* lines 217-226: Retake, shown with every image
Retake ==
    /\ camImage # 0
    /\ camImage' = 0
    /\ camData' = NoData
    /\ UNCHANGED <<camProcessing, camPicker, camTaken, camCompress, camTimers,
                   camRuns, camSaves>>
    /\ UNCHANGED <<qrVars, ocrVars, txtVars, authVars, ldVars>>

\* lines 228-238: Save Bill is shown with an image and a record, and is
\* disabled while processing
SaveShown == camImage # 0 /\ camData # NoData /\ ~camProcessing

\* lines 121-153: saveBill up to its await; without a user or a bill number
\* it alerts and returns
SaveBill(hasUser) ==
    /\ SaveShown
    /\ IF hasUser /\ camData.billNumber
       THEN /\ Len(camSaves) < MaxSaves
            /\ camProcessing' = TRUE
            /\ camSaves' = Append(camSaves, [image |-> camImage, of |-> camData.of])
       ELSE UNCHANGED <<camProcessing, camSaves>>
    /\ UNCHANGED <<camImage, camData, camPicker, camTaken, camCompress,
                   camTimers, camRuns>>
    /\ UNCHANGED <<qrVars, ocrVars, txtVars, authVars, ldVars>>

\* lines 155-161, 165-167: the bill is saved; the screen is reset
BillSaved(k) ==
    /\ k \in DOMAIN camSaves
    /\ camSaves' = SubSeq(camSaves, 1, k - 1) \o SubSeq(camSaves, k + 1, Len(camSaves))
    /\ camImage' = 0
    /\ camData' = NoData
    /\ camProcessing' = FALSE
    /\ UNCHANGED <<camPicker, camTaken, camCompress, camTimers, camRuns>>
    /\ UNCHANGED <<qrVars, ocrVars, txtVars, authVars, ldVars>>

\* lines 162-167: the save fails
SaveFails(k) ==
    /\ k \in DOMAIN camSaves
    /\ camSaves' = SubSeq(camSaves, 1, k - 1) \o SubSeq(camSaves, k + 1, Len(camSaves))
    /\ camProcessing' = FALSE
    /\ UNCHANGED <<camImage, camData, camPicker, camTaken, camCompress,
                   camTimers, camRuns>>
    /\ UNCHANGED <<qrVars, ocrVars, txtVars, authVars, ldVars>>

CamNext ==
    \/ \E kind \in {"camera", "gallery"} : PickerOpened(kind)
    \/ PickerClosed
    \/ PickerReturns
    \/ \E id \in TakenImages : Compressed(id)
    \/ \E id \in TakenImages : CompressFails(id)
    \/ \E id \in TakenImages : ProcessImage(id)
    \/ \E id \in TakenImages : \E hasBillNumber \in BOOLEAN : Extracted(id, hasBillNumber)
    \/ \E id \in TakenImages : ExtractionFails(id)
    \/ Retake
    \/ \E hasUser \in BOOLEAN : SaveBill(hasUser)
    \/ \E k \in 1..MaxSaves : BillSaved(k)
    \/ \E k \in 1..MaxSaves : SaveFails(k)

-----------------------------------------------------------------------------
(* The whole program *)

Init == QRInit /\ OCRInit /\ TxtInit /\ AuthInit /\ LoadInit /\ CamInit

SpecQR == Init /\ [][QRNext]_vars

SpecOCR == Init /\ [][OCRNext]_vars

SpecText == Init /\ [][TextNext]_vars

SpecAuth == Init /\ [][AuthNext]_vars

SpecLoad == Init /\ [][LoadNext]_vars

SpecCamera == Init /\ [][CamNext]_vars

-----------------------------------------------------------------------------
(* Properties of the OCR entry point and its merge *)

\* the call has ended with the merge of an OCR candidate and a QR candidate
Merged == ocrPc = "done" /\ ocrData # Null /\ ocrResult.kind = "returned"

\* the candidate holds the field with a value other than undefined and null
HasValue(candidate, field) == Prop(candidate, field).t \notin {"undef", "null"}

PrecedenceFields == {"billNumber", "amount", "date"}

\* C1: in the merged record each of ticket number, amount and date is the QR
\* candidate's value when the QR candidate has one, and the OCR candidate's
\* value when the QR candidate holds none (field absent, undefined or null)
C1_QrWinsElseOcr ==
    Merged =>
        \A field \in PrecedenceFields :
            ocrResult.v[field] = IF HasValue(ocrQr, field) THEN ocrQr[field]
                                 ELSE ocrData[field]

\* a station name read from the text, not the placeholder
Recovered(value) == Truthy(value) /\ value # Str(Unknown)

RouteFields == {"from", "to"}

RouteOf(field) ==
    IF Recovered(ocrData[field]) THEN ocrData[field]
    ELSE IF Truthy(Prop(ocrQr, field)) THEN ocrQr[field]
    ELSE Str(Unknown)

C3_MergeKeepsValues ==
    Merged =>
        \A field \in DOMAIN ocrData \cup DOMAIN ocrQr :
            (HasValue(ocrData, field) \/ HasValue(ocrQr, field))
                => HasValue(ocrResult.v, field)

\* C4: no call of the entry point ends with an exception thrown to the caller
C4_NeverThrows == ocrResult.kind # "thrown"

-----------------------------------------------------------------------------
(* Properties of the QR payload decoder *)

HasRun(name) == \E i \in DOMAIN qrRan : qrRan[i] = name

\* the candidate the strategy `name` produced in the parse under way
OutputOf(name) == qrOut[CHOOSE i \in DOMAIN qrRan : qrRan[i] = name]

\* what the strategy `name` yields when it is applied to a payload
StrategyOutput(name, data, legacy) ==
    CASE name = "json"   -> JsonCandidate(data, legacy)
      [] name = "kv"     -> KeyValueCandidate(data, legacy)
      [] name = "custom" -> parseCustomMetroPayload(data)
      [] name = "free"   -> extractBillFromFreeText(data, legacy)

StrategyAccepts(k, data, legacy) ==
    hasBillValuesOrNull(StrategyOutput(StrategyOrder[k], data, legacy))

\* the bill is the output of strategy k, which is accepted, and no strategy
\* before k yields an accepted output on the payload
IsFirstAccepted(bill, k, data, legacy) ==
    /\ bill = StrategyOutput(StrategyOrder[k], data, legacy)
    /\ StrategyAccepts(k, data, legacy)
    /\ \A j \in 1..(k - 1) : ~StrategyAccepts(j, data, legacy)

\* C5: the strategies run in the order JSON, key/value, custom, free text; a
\* strategy runs only after every earlier one produced no accepted record; the
\* record returned is the output of the first strategy in that order whose
\* output is accepted.
C5_FirstAcceptedWins ==
    /\ Len(qrRan) <= Len(StrategyOrder)
    /\ Len(qrOut) = Len(qrRan)
    /\ \A i \in DOMAIN qrRan : qrRan[i] = StrategyOrder[i]
    /\ \A i \in 1..(Len(qrRan) - 1) : ~hasBillValuesOrNull(qrOut[i])
    /\ (qrPc = "return" /\ qrBill # Null) =>
           /\ qrBill = qrOut[Len(qrOut)]
           /\ IsFirstAccepted(qrBill, Len(qrRan), qrData, qrLegacy)

\* the custom strategy's record is returned after JSON and key/value gave none
C5_Witness ==
    /\ qrPc = "return"
    /\ qrRan = <<"json", "kv", "custom">>
    /\ qrBill # Null
    /\ qrBill = qrOut[3]

\* C6: an all-null candidate of any strategy, JSON included, makes the decoder
\* try the next strategy, so it returns no bill only if none of the four
\* strategies yields a recognizable value on the payload.
C6_NoBillOnlyIfAllFail ==
    (qrPc = "return" /\ qrBill = Null) =>
        /\ HasRun("free")
        /\ \A k \in DOMAIN StrategyOrder : ~StrategyAccepts(k, qrData, qrLegacy)

\* C7: on a payload without `|` the custom strategy returns null before any
\* splitting, and the decoder goes on to the free-text strategy.
C7_NoPipeNoSplit ==
    (HasRun("custom") /\ ~Includes(qrData, "|")) =>
        /\ ~qrSplit
        /\ OutputOf("custom") = Null
        /\ qrPc = "free" \/ HasRun("free")

\* a payload without `|` has been through the custom strategy and the
\* free-text strategy has run after it
C7_Witness ==
    /\ qrRan = StrategyOrder
    /\ ~Includes(qrData, "|")
    /\ qrData # <<>>
    /\ OutputOf("custom") = Null
    /\ ~qrSplit

C8_SegmentFourRule(out, segment, metroDate) ==
    IF Truthy(metroDate) THEN out.date = metroDate
    ELSE out.billNumber = Str(segment)

C8_Example == <<"{", "A", "|", "B", "|", "C", "|", "D", "|", "2", "0", "2", "4", "0", "1", "1", "5", "T", "1", "1", "3", "0", "0", "0", "|", "0", "x", "1", ".", "8", "p", "+", "3", "|", "G", "|", "s", "t", "n", "1", "|", "S", "T", "N", "2", "}">>

\* C8: with a data block, the segment at index 4 of its segment list gives the
\* record's date when it reads as a compact timestamp (20240115T113000 is
\* 2024-01-15 11:30:00), and is the record's ticket number otherwise.
C8_SegmentFour ==
    /\ (HasRun("custom") /\ Len(DataSegments(qrData)) >= 5) =>
           C8_SegmentFourRule(OutputOf("custom"), DataSegments(qrData)[5],
                              parseMetroDateTime(DataSegments(qrData)[5]))
    /\ (HasRun("custom") /\ qrData = C8_Example) =>
           DateParts(OutputOf("custom").date)
               = [y |-> 2024, m |-> 1, d |-> 15, h |-> 11, mi |-> 30, s |-> 0]

\* the example payload decoded, its date taken from segment 4
C8_Witness ==
    /\ HasRun("custom")
    /\ qrData = C8_Example
    /\ Truthy(OutputOf("custom").date)
    /\ ~Truthy(parseMetroDateTime(<<"T", "K", "1", "2", "3", "4", "5", "6", "7", "8", "9", "0">>))

\* a data block whose segment 4 is no timestamp has been decoded
C8_WitnessTicket ==
    /\ HasRun("custom")
    /\ Len(DataSegments(qrData)) >= 5
    /\ DataSegments(qrData)[5] = <<"T", "K", "1", "2", "3", "4", "5", "6", "7", "8", "9", "0">>
    /\ OutputOf("custom").billNumber = Str(<<"T", "K", "1", "2", "3", "4", "5", "6", "7", "8", "9", "0">>)

\* the first position of s holding c
PositionOf(s, c) == CHOOSE i \in DOMAIN s : s[i] = c /\ \A j \in 1..(i - 1) : s[j] # c

\* mantissa / 16^digits * 2^exponent as a number
HexFloatNumber(mantissa, fractionDigits, negative, exponent) ==
    IF negative THEN Num(mantissa, Pow(16, fractionDigits) * Pow(2, exponent))
    ELSE Num(mantissa * Pow(2, exponent), Pow(16, fractionDigits))

HexFloatOfTexts(integerText, fractionText, exponentText) ==
    HexFloatNumber(IntOfHex(integerText) * Pow(16, Len(fractionText)) + IntOfHex(fractionText),
                   Len(fractionText), Head(exponentText) = "-",
                   IntOfDigits(KeepOnly(exponentText, Digits)))

HexFloatOfMantissa(mantissaParts, exponentText) ==
    HexFloatOfTexts(mantissaParts[1],
                    IF Len(mantissaParts) >= 2 THEN mantissaParts[2] ELSE <<>>,
                    exponentText)

\* what a segment 0x<hex integer>[.<hex fraction>]p<signed exponent> denotes:
\* (integer part + fraction digits weighted by 16^-k) * 2^exponent
HexFloatMeaning(segment) ==
    HexFloatOfMantissa(
        Split(SubSeq(segment, 3, PositionOf(ToLowerCase(segment), "p") - 1), "."),
        SubSeq(segment, PositionOf(ToLowerCase(segment), "p") + 1, Len(segment)))

\* C9: the amount decoded from a hexadecimal-float segment is the number the
\* segment denotes; the segment 0x1.8p+3 decodes to 12.
C9_HexFloatAmount ==
    /\ (HasRun("custom") /\ Truthy(FindFirst(DataSegments(qrData), IsHexFloat))) =>
           OutputOf("custom").amount
               = HexFloatMeaning(FindFirst(DataSegments(qrData), IsHexFloat).s)
    /\ (HasRun("custom") /\ qrData = C8_Example) =>
           OutputOf("custom").amount = Num(12, 1)

IsTwoDigits(s) == Len(s) = 2 /\ \A i \in DOMAIN s : s[i] \in Digits

\* a day|month|year triple of two-digit numbers, the day and the month real ones
IsDateTriple(dateParts) ==
    /\ Len(dateParts) = 3
    /\ \A i \in 1..3 : IsTwoDigits(dateParts[i])
    /\ IntOfDigits(dateParts[1]) \in 1..31
    /\ IntOfDigits(dateParts[2]) \in 1..12

\* the third angle-bracket token of the route block is a date triple and the
\* data block gave no date
RouteDateApplies(dataSegments, routeBlock) ==
    /\ Truthy(routeBlock)
    /\ Len(AngleMatches(routeBlock.s, 1)) >= 3
    /\ IsDateTriple(Split(AngleMatches(routeBlock.s, 1)[3], "|"))
    /\ ~Truthy(DataStage(dataSegments, routeBlock).date)

RouteYearText(routeBlock) == Split(AngleMatches(routeBlock.s, 1)[3], "|")[3]

HasYear(date, yy) ==
    /\ date.t = "date"
    /\ GetFullYear(date) = yy + (IF yy >= 70 THEN 1900 ELSE 2000)

\* C10: a route block's date triple dd|mm|yy, with no date from the data
\* block, gives a date in year 1900 + yy when yy >= 70 and 2000 + yy otherwise
\* (05|06|23 is in 2023, 05|06|75 in 1975).
C10_RouteYear ==
    /\ (/\ HasRun("custom")
        /\ Includes(qrData, "|")
        /\ RouteDateApplies(DataSegments(qrData),
                            FindFirst(BraceSections(qrData), IsRouteBlock))) =>
           HasYear(OutputOf("custom").date,
                   IntOfDigits(RouteYearText(FindFirst(BraceSections(qrData), IsRouteBlock))))
    /\ (HasRun("custom") /\ qrData = RoutePayload(<<5, 6>>, 23)) =>
           GetFullYear(OutputOf("custom").date) = 2023
    /\ (HasRun("custom") /\ qrData = RoutePayload(<<5, 6>>, 75)) =>
           GetFullYear(OutputOf("custom").date) = 1975

\* the triple 05|06|75 decoded into a date of 1975
C10_Witness ==
    /\ HasRun("custom")
    /\ qrData = RoutePayload(<<5, 6>>, 75)
    /\ RouteDateApplies(DataSegments(qrData), FindFirst(BraceSections(qrData), IsRouteBlock))
    /\ OutputOf("custom").date.t = "date"
    /\ GetFullYear(OutputOf("custom").date) = 1975

-----------------------------------------------------------------------------
(* Further properties of the QR payload decoder *)

RouteBlockOf(text) == FindFirst(BraceSections(text), IsRouteBlock)

\* the payload has a data block and a route block with two tokens that read
\* as station names
BothBlocks(text) ==
    /\ Includes(text, "|")
    /\ DataSegments(text) # <<>>
    /\ Truthy(RouteBlockOf(text))
    /\ Len(AngleMatches(RouteBlockOf(text).s, 1)) >= 2
    /\ \A k \in 1..2 : Truthy(formatRouteSegment(AngleMatches(RouteBlockOf(text).s, 1)[k]))

RouteText(text, k) == formatRouteSegment(AngleMatches(RouteBlockOf(text).s, 1)[k])

\* the decoded station code of segment 7 (k = 1) or 8 (k = 2)
StationCodeOf(text, k) == decodeMetroStationCode(SegAt(DataSegments(text), 6 + k))

\* the route text with the code in parentheses, unless the code only repeats it
RouteTextWithCode(name, code) ==
    IF Truthy(code) /\ ToUpperCase(name.s) # ToUpperCase(code.s) THEN WithCode(name, code)
    ELSE name

\* C11: with a data block and a route block the origin and the destination
\* are the route block's first and second tokens, never replaced by the
\* station codes of segments 7 and 8; the decoded code is appended in
\* parentheses only when it does not repeat the route text
C11_RouteBlockWins ==
    (HasRun("custom") /\ BothBlocks(qrData)) =>
        /\ OutputOf("custom").from
               = RouteTextWithCode(RouteText(qrData, 1), StationCodeOf(qrData, 1))
        /\ OutputOf("custom").to
               = RouteTextWithCode(RouteText(qrData, 2), StationCodeOf(qrData, 2))

-----------------------------------------------------------------------------
(* Further properties of the text heuristics of unnamed/part_002 *)

\* a call of the part_002 copy has ended after parseWithHeuristics ran
MetroParsed == ocrPc = "done" /\ ocrCopy = "part_002" /\ ocrData # Null

RecognizedNow == RecognizedText(ocrCopy, ocrImage.rec)

\* the amount as it is read from the text, before any correction
RawAmount(text) == AmountOfText(amountValMetro(text))

\* 200 taken off a value of 200 up to 300, a tenth of any other value from
\* 100 on, every other value as it is
CorrectedAmount(v) ==
    IF v.num >= 200 * v.den /\ v.num < 300 * v.den THEN Num(v.num - 200 * v.den, v.den)
    ELSE IF v.num >= 100 * v.den THEN Num(v.num, 10 * v.den)
    ELSE v

AmountExamples ==
    /\ RecognizedNow = MetroTicket(<<"0", ".", "5", "9", " ", "g", " ", "C", "O", "2">>, <<"R", "s", " ", "2", "1", "4", ".", "0">>) => ocrData.amount = Num(14, 1)
    /\ RecognizedNow = MetroTicket(<<"0", ".", "5", "9", " ", "g", " ", "C", "O", "2">>, <<"R", "s", " ", "1", "5", "0">>) => ocrData.amount = Num(15, 1)
    /\ RecognizedNow = MetroTicket(<<"0", ".", "5", "9", " ", "g", " ", "C", "O", "2">>, <<"R", "s", " ", "4", "5">>) => ocrData.amount = Num(45, 1)

\* C12: the amount of the record is the raw amount with 200 subtracted when
\* it lies in 200 <= v < 300, else divided by 10 when it is 100 or more, else
\* unchanged: raw 214 gives 14, raw 150 gives 15, raw 45 stays 45
C12_AmountCorrection ==
    MetroParsed =>
        /\ RawAmount(RecognizedNow).t = "num"
               => ocrData.amount = CorrectedAmount(RawAmount(RecognizedNow))
        /\ AmountExamples

\* the ticket with Rs 214.0 has been parsed and its amount is 14
C12_Witness ==
    /\ MetroParsed
    /\ RecognizedNow = MetroTicket(<<"0", ".", "5", "9", " ", "g", " ", "C", "O", "2">>, <<"R", "s", " ", "2", "1", "4", ".", "0">>)
    /\ RawAmount(RecognizedNow) = Num(214, 1)
    /\ ocrData.amount = Num(14, 1)

\* the number parsed from the matched emissions token of the text, NaN when
\* the text has no such token
Co2Number(text, co2Match) ==
    IF ~co2Match.ok THEN NaN
    ELSE ParseFloat(WithoutSpaces(NormalizedDigits(Group(text, co2Match, 1))))

\* the number written at the head of the co2Saved string
SavedNumber(saved) == ParseFloat(saved.s)

\* the most divisions by ten the property follows a value through
MaxCo2Shift == 6

\* saved is v to two decimals: no further from it than half a hundredth
IsRounded(saved, v) ==
    /\ 200 * (saved.num * v.den - v.num * saved.den) <= saved.den * v.den
    /\ 200 * (v.num * saved.den - saved.num * v.den) <= saved.den * v.den

\* v needs exactly k divisions by ten to come down to 2 or less
NeedsShifts(v, k) ==
    /\ v.num <= 2 * v.den * Pow(10, k)
    /\ k > 0 => v.num > 2 * v.den * Pow(10, k - 1)

MagnitudeCorrected(saved, v) ==
    /\ saved.t = "num"
    /\ saved.num <= 2 * saved.den
    /\ \E k \in 0..MaxCo2Shift :
           NeedsShifts(v, k) /\ IsRounded(saved, Num(v.num, v.den * Pow(10, k)))

\* C13: a finite number parsed from the emissions token is divided by 10 as
\* long as it exceeds 2 and no further, so the value in co2Saved is never
\* above 2 and a value of 2 or less is kept as it is
C13_EmissionsCeiling ==
    (MetroParsed /\ Co2Number(RecognizedNow, Search(co2Regex, RecognizedNow, 1)).t = "num") =>
        MagnitudeCorrected(SavedNumber(ocrData.co2Saved),
                           Co2Number(RecognizedNow, Search(co2Regex, RecognizedNow, 1)))

\* the ticket with 214 g CO2 has been parsed: 214 came down to 0.21
C13_Witness ==
    /\ MetroParsed
    /\ RecognizedNow = MetroTicket(<<"2", "1", "4", " ", "g", " ", "C", "O", "2">>, <<"R", "s", " ", "4", "5">>)
    /\ Co2Number(RecognizedNow, Search(co2Regex, RecognizedNow, 1)) = Num(214, 1)
    /\ ocrData.co2Saved = Str(<<"0", ".", "2", "1", " ", "g", " ", "C", "O", "2">>)

\* the matched emissions token with its misread digits put right
Co2Token(text, co2Match) == NormalizedDigits(Group(text, co2Match, 1))

\* the token holds digits, white space and at most one point, the point
\* with a digit before it
IsPlainToken(token) ==
    /\ \A i \in DOMAIN token : token[i] \in Digits \cup WhiteSpace \cup {"."}
    /\ \E i \in DOMAIN token : token[i] \in Digits
    /\ Cardinality({i \in DOMAIN token : token[i] = "."}) <= 1
    /\ DropAll(token, WhiteSpace)[1] \in Digits

\* the number with the integer digits ints and the fraction digits fracs
DecimalOfDigits(ints, fracs) ==
    Num(IntOfDigits(ints) * Pow(10, Len(fracs)) + IntOfDigits(fracs), Pow(10, Len(fracs)))

\* a token with a point: the digits on either side of it, white space aside
PointValue(digits) ==
    DecimalOfDigits(SubSeq(digits, 1, PositionOf(digits, ".") - 1),
                    Drop(digits, PositionOf(digits, ".") + 1))

\* a token without a point: the digits before its first inner white space are
\* the integer part, all digits after it the fraction
GapValue(trimmed, n) ==
    DecimalOfDigits(SubSeq(trimmed, 1, n), DropAll(Drop(trimmed, n + 1), WhiteSpace))

TokenValue(token) ==
    IF Includes(token, ".") THEN PointValue(DropAll(token, WhiteSpace))
    ELSE GapValue(Trim(token), RunLenNot(Trim(token), 1, WhiteSpace))

Co2Examples ==
    /\ RecognizedNow = MetroTicket(<<"0", " ", "5", "9", " ", "g", " ", "C", "0", "2">>, <<"R", "s", " ", "4", "5">>)
           => ocrData.co2Saved = Str(<<"0", ".", "5", "9", " ", "g", " ", "C", "O", "2">>)
    /\ RecognizedNow = MetroTicket(<<"1", ".", "0", "2", "g", " ", "C", "O", "2">>, <<"R", "s", " ", "4", "5">>)
           => ocrData.co2Saved = Str(<<"1", ".", "0", "2", " ", "g", " ", "C", "O", "2">>)

\* C14: a matched number token without a decimal point has its first inner
\* run of white space read as the decimal separator and its other white
\* space dropped ("0 59" in "0 59 g C02" gives "0.59 g CO2"); a token with a
\* decimal point has its white space dropped ("1.02g CO2" gives "1.02 g CO2")
C14_DecimalInference ==
    (MetroParsed /\ Search(co2Regex, RecognizedNow, 1).ok) =>
        /\ IsPlainToken(Co2Token(RecognizedNow, Search(co2Regex, RecognizedNow, 1)))
               => MagnitudeCorrected(
                      SavedNumber(ocrData.co2Saved),
                      TokenValue(Co2Token(RecognizedNow, Search(co2Regex, RecognizedNow, 1))))
        /\ Co2Examples

\* the ticket with 0 59 g C02 has been parsed into 0.59 g CO2
C14_Witness ==
    /\ MetroParsed
    /\ RecognizedNow = MetroTicket(<<"0", " ", "5", "9", " ", "g", " ", "C", "0", "2">>, <<"R", "s", " ", "4", "5">>)
    /\ Trim(Co2Token(RecognizedNow, Search(co2Regex, RecognizedNow, 1))) = <<"0", " ", "5", "9">>
    /\ ocrData.co2Saved = Str(<<"0", ".", "5", "9", " ", "g", " ", "C", "O", "2">>)

-----------------------------------------------------------------------------
(* Further properties: the shape of ticket numbers *)

MinTicketLength == 6

\* the record is none, has no ticket number or one of the minimum length
HasTicketShape(record) ==
    \/ record = Null
    \/ ~Truthy(Prop(record, "billNumber"))
    \/ Len(record.billNumber.s) >= MinTicketLength

\* C16: in every record an extraction stage produces the ticket number is
\* absent or at least 6 characters long; shorter candidates are dropped
C16_TicketNumberLength ==
    /\ \A i \in DOMAIN qrOut : HasTicketShape(qrOut[i])
    /\ HasTicketShape(qrBill)

-----------------------------------------------------------------------------
(* Further properties of the OCR entry point *)

\* how a call of the same copy on the same image ends when the clock reads `now`
OutcomeAt(now) ==
    OutcomeOf(ocrCopy, ocrImage.rec, OcrDataOf(ocrCopy, ocrImage.rec, now), ocrQr, now)

\* C17: a call is a function of its input alone: a call on the same input at
\* any other time returns an equal record
C17_SameInputSameRecord ==
    (ocrPc = "done" /\ ocrImage.uri # <<>>) =>
        \A now \in ClockReadings : OutcomeAt(now) = ocrResult

\* the recognizer threw, returned nothing or returned no text
UpstreamFailed ==
    /\ ocrPc = "done"
    /\ ocrImage.uri # <<>>
    /\ \/ ocrImage.rec.kind \in {"throws", "null"}
       \/ RecognizedText(ocrCopy, ocrImage.rec) = <<>>

DiagnosticMarkers ==
    {Str(<<"O", "C", "R", " ", "F", "a", "i", "l", "e", "d">>), Str(<<"Q", "R", " ", "O", "n", "l", "y">>), Str(<<"Q", "R", " ", "O", "n", "l", "y", " ", "(", "O", "C", "R", " ", "F", "a", "i", "l", "e", "d", ")">>)}

\* the record holds the placeholder of every field the QR candidate does not
\* give, and a marker for its text
IsPlaceholderRecord(record, qrCandidate, placeholder) ==
    /\ DOMAIN record = DOMAIN placeholder
    /\ record.extractedText \in DiagnosticMarkers
    /\ \A field \in DOMAIN placeholder \ (DOMAIN qrCandidate \cup {"extractedText"}) :
           record[field] = placeholder[field]
    /\ ~HasKeys(qrCandidate) => record = placeholder

-----------------------------------------------------------------------------
(* Properties of the text stage of the on-device copy *)

\* C15: normalizing already-normalized text returns the same text:
\* normalizeText(normalizeText(t)) = normalizeText(t) for every input t
C15_NormalizeIdempotent ==
    txtPc # "idle" => normalizeText(txtNorm) = txtNorm

\* a line that is a label and a separator (colon or hyphen) and nothing else
BareLabelPattern ==
    <<Bos, Cls(AlphaNum \cup {" ", "."}, 2, Unbounded), Cls(WhiteSpace, 0, Unbounded),
      Cls({":", "-"}, 1, 1), Eos>>

IsBareLabel(line) == PathFrom(BareLabelPattern, 1, line, 1).ok

LabelOf(line) == normalizeKey(Group(line, PathFrom(BareLabelPattern, 1, line, 1), 2))

EndsInSeparator(line) == line # <<>> /\ line[Len(line)] \in {":", "-"}

\* the line the loop is at, and the one before it
LineAt(i) == CollapsedLine(txtLines[i])

\* the loop is at a line that follows a bare label, itself no value of a
\* label before it
AfterBareLabel ==
    /\ txtIdx >= 2
    /\ IsBareLabel(LineAt(txtIdx - 1))
    /\ LabelOf(LineAt(txtIdx - 1)) # <<>>
    /\ txtIdx >= 3 => ~EndsInSeparator(LineAt(txtIdx - 2))

\* the step gives the label of the line before to the full text of this line
AttachesToLabel ==
    /\ LabelOf(LineAt(txtIdx - 1)) \in DOMAIN txtMap'
    /\ txtMap'[LabelOf(LineAt(txtIdx - 1))] = LineAt(txtIdx)

\* the step leaves every entry as it is, but the one of the given label
KeepsAllBut(label) ==
    \A key \in (DOMAIN txtMap \cup DOMAIN txtMap') \ {label} :
        /\ key \in DOMAIN txtMap
        /\ key \in DOMAIN txtMap'
        /\ txtMap'[key] = txtMap[key]

\* C20: a bare label (a label and a separator, no value) followed by a line
\* that does not match the label pattern gets that line's full text; a
\* label is given to at most the one line after it; a line that matches the
\* label pattern is not taken as the value of the label pending before it
C20_PendingLabel ==
    [][(txtPc = "lines" /\ txtIdx' = txtIdx + 1) =>
          /\ (AfterBareLabel /\ ~KvMatch(LineAt(txtIdx)).ok) => AttachesToLabel
          /\ ((txtIdx >= 2 => ~EndsInSeparator(LineAt(txtIdx - 1)))
                  /\ ~KvMatch(LineAt(txtIdx)).ok) => txtMap' = txtMap
          /\ KvMatch(LineAt(txtIdx)).ok =>
                 KeepsAllBut(normalizeKey(Group(LineAt(txtIdx), KvMatch(LineAt(txtIdx)), 2)))]_vars

-----------------------------------------------------------------------------
(* Properties of the mock OTP login *)

\* the current user is the user of the last login that succeeded, a login
\* made with the code 123456, or the stored user restored at start
UserIsVerified ==
    authUser # Null =>
        \/ /\ authHist.login # Null
           /\ authHist.login.otp = <<"1", "2", "3", "4", "5", "6">>
           /\ authUser = authHist.login.user
        \/ authUser = authHist.restored

\* the step is a call of login with the given code
LoginCalled(otp) ==
    /\ authLogin.pc = "idle"
    /\ authLogin' # authLogin
    /\ authLogin' # NoLogin
    /\ authLogin'.otp = otp

\* C19: after any sequence of sendOTP, login and logout the current user is
\* non-null only if the last login that succeeded supplied the code 123456
\* (or a stored user was restored at start); a login with any other code
\* returns failure and leaves the current user and the stored user unchanged
C19_MockOtpLogin ==
    /\ []UserIsVerified
    /\ [][\A otp \in Otps \ {<<"1", "2", "3", "4", "5", "6">>} :
              LoginCalled(otp) =>
                  /\ authLogin'.pc = "idle"
                  /\ authLogin'.ret = "false"
                  /\ authUser' = authUser
                  /\ authStored' = authStored]_vars

\* a login with a wrong code has returned failure while a user, logged in
\* with the right code before, is the current and the stored one
C19_Witness ==
    /\ authLogin.pc = "idle"
    /\ authLogin.ret = "false"
    /\ authLogin.otp = <<"0", "0", "0", "0", "0", "0">>
    /\ authHist.login # Null
    /\ authUser = authHist.login.user
    /\ authStored = JsonOfUser(authUser)

-----------------------------------------------------------------------------
(* Further properties of the text stage of the on-device copy *)

\* the value the line at the loop's position supplies to the map: the value
\* part of a "label: value" line, the whole line after a pending label
SuppliedValue ==
    IF KvMatch(LineAt(txtIdx)).ok
    THEN Trim(Group(LineAt(txtIdx), KvMatch(LineAt(txtIdx)), 6))
    ELSE LineAt(txtIdx)

\* the label the line at the loop's position writes, <<>> if it writes none
WrittenLabel ==
    IF KvMatch(LineAt(txtIdx)).ok
    THEN normalizeKey(Group(LineAt(txtIdx), KvMatch(LineAt(txtIdx)), 2))
    ELSE IF txtPending # Null THEN txtPending.s
    ELSE <<>>

\* C21: last write wins: the value stored for a label is exactly the value
\* supplied by the last line (or pending-label attachment) that wrote the
\* label; an earlier value of the label is overwritten, never concatenated
\* or kept
C21_LastWriteWins ==
    [][(txtPc = "lines" /\ txtIdx' = txtIdx + 1 /\ WrittenLabel # <<>>) =>
          /\ WrittenLabel \in DOMAIN txtMap'
          /\ txtMap'[WrittenLabel] = SuppliedValue]_vars

-----------------------------------------------------------------------------
(* Further properties of the text heuristics: dates *)

\* the day/month/year token of the recognized text and its numbers
DmyToken == dateVal(RecognizedNow)

DmyPart(k) == SplitAny(DmyToken, {"/", "-"})[k]

DmyYear ==
    IF Len(DmyPart(3)) = 2 THEN 2000 + IntOfDigits(DmyPart(3)) ELSE IntOfDigits(DmyPart(3))

\* day d of month m of year y is a day of the calendar
IsCalendarDate(y, m, d) ==
    /\ m \in 1..12
    /\ d >= 1
    /\ CivilFromDays(DaysFromCivil(y, m, d)).m = m

TextParsed == ocrPc = "done" /\ ocrData # Null /\ DmyToken # <<>>

\* C22: a D/M/Y token with a two-digit year yy gives the year 2000 + yy, and
\* a token that is no date of the calendar gives the current date, neither
\* an invalid nor a rolled-over one; in every copy of the text extraction
C22_DateOfToken ==
    TextParsed =>
        ocrData.date =
            IF IsCalendarDate(DmyYear, IntOfDigits(DmyPart(2)), IntOfDigits(DmyPart(1)))
            THEN [t |-> "date",
                  day |-> DaysFromCivil(DmyYear, IntOfDigits(DmyPart(2)), IntOfDigits(DmyPart(1))),
                  ms |-> 0]
            ELSE DateOfClock(ocrNow)

-----------------------------------------------------------------------------
(* Further properties of the text heuristics: the emissions text *)

\* /^\d+\.\d{2} g CO2$/: a number with exactly two decimal digits and the unit
TwoDecimalsPattern ==
    <<Bos, Cls(Digits, 1, Unbounded), Lit(<<".">>), Cls(Digits, 2, 2), Lit(<<" ", "g", " ", "C", "O", "2">>), Eos>>

\* C23: every emissions text produced has the form "<value> g CO2", the
\* value being the corrected number written with exactly two decimal digits
\* (0.5 is written 0.50 and 1 is written 1.00)
C23_EmissionsFormat ==
    (MetroParsed /\ ocrData.co2Saved # Str(<<>>)) =>
        /\ PathFrom(TwoDecimalsPattern, 1, ocrData.co2Saved.s, 1).ok
        /\ IsRounded(SavedNumber(ocrData.co2Saved),
                     AtMostTwo(Co2Number(RecognizedNow, Search(co2Regex, RecognizedNow, 1))))

-----------------------------------------------------------------------------
(* Further properties of the QR payload decoder: accepted records *)

\* a number that is finite and not negative
IsAmount(v) == v.t = "big" \/ (v.t = "num" /\ v.num >= 0)

\* the record holds a value one can recognize: a ticket number, an amount,
\* an origin, a destination or a date
HasRecognizableValue(bill) ==
    \/ Truthy(bill.billNumber)
    \/ IsAmount(bill.amount)
    \/ Truthy(bill.from)
    \/ Truthy(bill.to)
    \/ Truthy(bill.date)

\* C24: every record the decoder accepts (returns as non-null) has at least
\* one recognizable value, and its amount, when present, is a finite number
\* that is not negative, never NaN; a candidate whose only value is an
\* amount that cannot be parsed is not accepted
C24_AcceptedRecord ==
    qrBill # Null =>
        /\ HasRecognizableValue(qrBill)
        /\ qrBill.amount = Undefined \/ IsAmount(qrBill.amount)

-----------------------------------------------------------------------------
(* Further properties of the segmented payload grammar *)

\* the pipe-delimited fields of a data block as the payload writes them
WrittenFieldsOf(dataBlock) ==
    IF Truthy(dataBlock) THEN TrimAll(Split(dataBlock.s, "|")) ELSE <<>>

WrittenFields(text) == WrittenFieldsOf(FindFirst(BraceSections(text), IsDataBlock))

\* the field at index k as a token: undefined when it is missing or empty
WrittenToken(text, k) ==
    IF SegAt(WrittenFields(text), k) = Str(<<>>) THEN Undefined
    ELSE SegAt(WrittenFields(text), k)

\* the indexes of the positional schema: sequence or date token, route codes
SchemaPositions == {4, 7, 8}

\* C25: the tokens read as segment 4, segment 7 and segment 8 are the 5th,
\* 8th and 9th pipe-delimited fields of the data block as written in the
\* payload, also when an earlier field of the block is empty
C25_PositionalSchema ==
    (HasRun("custom") /\ WrittenFields(qrData) # <<>>) =>
        \A k \in SchemaPositions :
            SegAt(DataSegments(qrData), k) = WrittenToken(qrData, k)

\* the index of the first block satisfying P
FirstIndex(blocks, P(_)) ==
    CHOOSE i \in DOMAIN blocks : P(blocks[i]) /\ \A j \in 1..(i - 1) : ~P(blocks[j])

\* the payload has a block used as data block and a block used as route block
HasBothBlocks(text) ==
    /\ \E i \in DOMAIN BraceSections(text) : IsDataBlock(BraceSections(text)[i])
    /\ \E i \in DOMAIN BraceSections(text) : IsRouteBlock(BraceSections(text)[i])

\* C26: the brace block used as the data block and the brace block used as
\* the route block are two different blocks: no single block is parsed both
\* as pipe-delimited data segments and as route tokens
C26_DistinctBlocks ==
    (HasRun("custom") /\ PassesPipeGuard(qrData) /\ HasBothBlocks(qrData)) =>
        FirstIndex(BraceSections(qrData), IsDataBlock)
            # FirstIndex(BraceSections(qrData), IsRouteBlock)

\* segment 4 of the payload's data block was accepted as the transaction date
DateSegmentAccepted ==
    /\ HasRun("custom")
    /\ PassesPipeGuard(qrData)
    /\ Truthy(SegAt(DataSegments(qrData), 4))
    /\ Truthy(parseMetroDateTime(SegAt(DataSegments(qrData), 4).s))

\* C27: a segment accepted as the transaction date (segment 4 read as a
\* valid compact timestamp) is never also returned as the record's ticket
\* number by the ticket-number fallbacks that come after
C27_DateIsNoTicket ==
    DateSegmentAccepted =>
        OutputOf("custom").billNumber # SegAt(DataSegments(qrData), 4)

-----------------------------------------------------------------------------
(* Properties of the model loader under calls side by side *)

\* the call c reaches `await loadPromise` in this step
ArrivesAtLoad(c) == ldCalls[c].pc = "idle" /\ ldCalls'[c].pc = "waiting"

SomeLoadSucceeded == \E id \in DOMAIN ldLoads : ldLoads[id] = "ok"

OneLoadInFlight == Cardinality(InFlight(ldLoads)) <= 1

WaitsOnLoadInFlight ==
    \A c \in LoadCallers :
        (ldCalls[c].pc = "waiting" /\ ldCalls[c].seen # {}) =>
            ldCalls[c].seen = {ldCalls[c].waits}

NoLoadAfterSuccess == SomeLoadSucceeded => ldLoads' = ldLoads

FreshLoadAfterFailure ==
    \A c \in LoadCallers :
        (ArrivesAtLoad(c) /\ InFlight(ldLoads) = {} /\ ~SomeLoadSucceeded) =>
            /\ ldLoads' = Append(ldLoads, "pending")
            /\ ldCalls'[c].waits = Len(ldLoads')

\* C28: at any time at most one model load is in flight; every call that
\* arrives while a load is in flight waits on that same load; once a load
\* has succeeded no later call starts another load; and after a load
\* fails, the next call starts a fresh load instead of reusing the failed
\* one.
C28_SingleLoad ==
    /\ [](OneLoadInFlight /\ WaitsOnLoadInFlight)
    /\ [][NoLoadAfterSuccess /\ FreshLoadAfterFailure]_vars

\* two calls wait on the second load, started after the first one failed
C28_Witness ==
    /\ Len(ldLoads) = 2
    /\ ldLoads[1] = "failed"
    /\ ldLoads[2] = "pending"
    /\ \E c \in LoadCallers : \E d \in LoadCallers \ {c} :
          /\ ldCalls[c].pc = "waiting" /\ ldCalls[c].waits = 2 /\ ldCalls[c].seen = {}
          /\ ldCalls[d].pc = "waiting" /\ ldCalls[d].waits = 2 /\ ldCalls[d].seen = {2}

\* a call is served by the load that succeeded before it arrived
C28_WitnessReuse ==
    \E c \in LoadCallers :
        /\ ldCalls[c].pc = "forward"
        /\ ldCalls[c].seen = {}
        /\ ldLoads[ldCalls[c].waits] = "ok"
        /\ Len(ldLoads) = 1
        /\ \E d \in LoadCallers \ {c} : ldCalls[d].result = "extracted"

-----------------------------------------------------------------------------
(* Properties of the capture screen under presses, timers and runs side by
   side *)

DataOfShownImage == (camImage # 0 /\ camData # NoData) => camData.of = camImage

\* a run of processImage sets extractedData in this step
Installs(id) == id \in camRuns /\ camData' # camData /\ camData'.of = id

NoStaleInstall == \A id \in TakenImages : Installs(id) => camImage = id

\* C29: whenever extracted data is held together with a displayed image
\* (and so can be saved), that data was extracted from that same image; a
\* processing run started for an earlier image never installs its result
\* after the user has retaken or replaced the image.
C29_DataOfImage == []DataOfShownImage /\ [][NoStaleInstall]_vars

\* the record of one image can be saved with another image on display
C29_StaleSave == SaveShown /\ camData.billNumber /\ camData.of # camImage

-----------------------------------------------------------------------------
(* Further properties of the text heuristics of unnamed/part_002: the bound
   of the corrected amount *)

AmountGrain == 4

\* the amounts from 0 up to 1000 in steps of one AmountGrain-th
AmountGrid == {Num(n, AmountGrain) : n \in 0..(1000 * AmountGrain - 1)}

IsMisreadRupee(v) == v.num >= 200 * v.den /\ v.num < 300 * v.den

BelowHundred(v) == v.t = "num" /\ v.num < 100 * v.den

\* the ticket whose amount line is the given one
TicketWithAmount(amountLine) == MetroTicket(<<"0", ".", "5", "9", " ", "g", " ", "C", "O", "2">>, amountLine)

\* C30: for every raw extracted amount r with 0 <= r < 1000 the corrected
\* amount is strictly below 100; an amount reduced by the subtract-200 rule
\* is never additionally divided by 10, and each of the two rules is
\* applied at most once per extraction: 250 gives 50, 999 gives 99.9, and
\* 1000 gives 100, not 10.
C30_AmountBound ==
    (MetroParsed /\ RawAmount(RecognizedNow).t = "num") =>
        /\ RawAmount(RecognizedNow).num < 1000 * RawAmount(RecognizedNow).den
               => BelowHundred(ocrData.amount)
        /\ IsMisreadRupee(RawAmount(RecognizedNow))
               => ocrData.amount = Num(RawAmount(RecognizedNow).num
                                           - 200 * RawAmount(RecognizedNow).den,
                                       RawAmount(RecognizedNow).den)
        /\ (~IsMisreadRupee(RawAmount(RecognizedNow)) /\ ~BelowHundred(RawAmount(RecognizedNow)))
               => ocrData.amount = Num(RawAmount(RecognizedNow).num,
                                       10 * RawAmount(RecognizedNow).den)
        /\ BelowHundred(RawAmount(RecognizedNow))
               => ocrData.amount = RawAmount(RecognizedNow)
        /\ \A r \in AmountGrid : BelowHundred(WithDecimalPoint(WithoutMisreadRupee(r)))

\* the ticket with Rs 999 has been parsed and its amount is 99.9
C30_Witness ==
    /\ MetroParsed
    /\ RecognizedNow = TicketWithAmount(<<"R", "s", " ", "9", "9", "9">>)
    /\ RawAmount(RecognizedNow) = Num(999, 1)
    /\ ocrData.amount = Num(999, 10)

\* the ticket with Rs 250 has been parsed: 200 is taken off and the 50
\* left is not divided
C30_WitnessMisread ==
    /\ MetroParsed
    /\ RecognizedNow = TicketWithAmount(<<"R", "s", " ", "2", "5", "0">>)
    /\ ocrData.amount = Num(50, 1)

\* the ticket with Rs 1000 has been parsed: one division leaves 100
C30_WitnessThousand ==
    /\ MetroParsed
    /\ RecognizedNow = TicketWithAmount(<<"R", "s", " ", "1", "0", "0", "0">>)
    /\ ocrData.amount = Num(100, 1)

=============================================================================
